---------------------------- MODULE Spec2Model ----------------------------
(***************************************************************************)
(* Model of the ActivTrack desktop agent                                   *)
(* (src/desktop-agents/python-agent/agent.py): the restricted-application  *)
(* enforcement tick, the event queue and its flush, the loop of the        *)
(* reporting scheduler, the loop of the control channel, and the           *)
(* control-channel message handler with the persisted configuration.       *)
(*                                                                         *)
(* Strings that the code lowercases or searches are sequences of           *)
(* one-character strings, so that str.lower() and the `in` substring test  *)
(* are computed and not assumed.                                           *)
(***************************************************************************)
EXTENDS Integers, Sequences, FiniteSets, TLC

VARIABLES
    restricted_apps,            \* self.restricted_apps: list of names
    restricted_app_timers,      \* self.restricted_app_timers: insertion-ordered dict
    event_queue,                \* self.event_queue (queue.Queue, FIFO)
    running_apps,               \* process snapshot at the most recent tick
    current_time,               \* wall clock (seconds) at the most recent tick
    terminate_calls,            \* terminate_process calls of the most recent tick, with results
    warnings,                   \* _show_restriction_warning calls of the most recent tick
    last_call,                  \* the handler that ran last
    pc,                         \* the step of run()'s loop that comes next
    message,                    \* the most recent inbound control message, parsed
    save_result,                \* how the most recent save_config ended
    device_id,
    organization_id,
    api_endpoint,
    ws_endpoint,
    screenshot_enabled,
    activity_tracking_enabled,
    idle_threshold,
    config_file,                \* content of CONFIG_PATH
    raised,                     \* an exception is propagating out of the call run() made last
    last_post,                  \* the POST to /events made in the current wake of run()'s loop, if any
    posts,                      \* every POST to /events so far, oldest first
    queued,                     \* every event put on the queue so far, oldest first
    fired,                      \* the calls run()'s loop made since its current wake began
    loop_time,                  \* run()'s local current_time: the clock read at the wake
    last_screenshot_time,       \* run()'s local last_screenshot_time
    last_heartbeat_time,        \* run()'s local last_heartbeat_time
    running,                    \* self.running
    connected,                  \* self.connected
    ws,                         \* self.ws: "None" or the WebSocketApp's state
    ws_pc,                      \* the step of run_websocket's loop that comes next
    ws_sent,                    \* the messages sent on the connection of self.ws
    ws_delay,                   \* seconds run_websocket slept since run_forever last ended
    handler_calls,              \* the calls the most recent on_message made, with results
    handler_raised,             \* the most recent on_message ended in its except clause
    needs_init,                 \* self.needs_init
    registration,               \* the most recent POST to /agent-register, if any
    retry_delay,                \* seconds run() slept before it returned unregistered
    in_flight                   \* the tick check_restricted_apps is in the middle of, if any

enforcement_vars == <<restricted_app_timers, event_queue, running_apps,
                      current_time, terminate_calls, warnings>>

settings_vars == <<screenshot_enabled, activity_tracking_enabled, idle_threshold>>

identity_vars == <<device_id, organization_id, api_endpoint, ws_endpoint>>

\* what has left the queue and what has entered it
report_vars == <<last_post, posts, queued>>

\* the locals of run() and the trace of its current wake
scheduler_vars == <<fired, loop_time, last_screenshot_time, last_heartbeat_time>>

\* the control channel
channel_vars == <<connected, ws, ws_pc, ws_sent, ws_delay>>

\* what the message handler did besides its writes to the Config Store
handler_vars == <<handler_calls, handler_raised>>

\* the bootstrap: the flag of run() and the registration exchange
boot_vars == <<needs_init, registration, retry_delay>>

vars == <<restricted_apps, restricted_app_timers, event_queue, running_apps,
          current_time, terminate_calls, warnings, last_call, pc, message, save_result,
          device_id, organization_id, api_endpoint, ws_endpoint,
          screenshot_enabled, activity_tracking_enabled, idle_threshold,
          config_file, raised, last_post, posts, queued, fired, loop_time,
          last_screenshot_time, last_heartbeat_time, running, connected, ws, ws_pc,
          ws_sent, ws_delay, handler_calls, handler_raised, needs_init, registration,
          retry_delay, in_flight>>

----------------------------------------------------------------------------
(* Program constants *)

WARN_THRESHOLD == 60

RESTRICTED_APP_TIMEOUT == 120

DEFAULT_IDLE_THRESHOLD == 300

SCREENSHOT_INTERVAL == 300

HEARTBEAT_INTERVAL == 60

\* time.sleep(5) of run_websocket
RECONNECT_DELAY == 5

\* time.sleep(30) of run(), after a registration that failed
REGISTER_RETRY_DELAY == 30

(* Bounds of the model *)

\* the last clock reading, in seconds
MaxTime == 122

\* the number of events put on the queue in a run of SpecQueue
MaxEvents == 3

\* the capacity a bounded event queue would have: the code sets none
QueueCapacity == 2

----------------------------------------------------------------------------
(* Optional values *)

\* Python's None, and a present value
None == <<>>

Some(v) == <<v>>

\* truth value of an optional integer: None and 0 are falsy
TruthyInt(o) == o # None /\ o[1] # 0

\* truth value of a str: "" is falsy
TruthyStr(str) == str # ""

\* a call the agent made and whether it ended well
Call(name, ok) == [call |-> name, ok |-> ok]

----------------------------------------------------------------------------
(* Strings *)

UpperCase == <<"A","B","C","D","E","F","G","H","I","J","K","L","M",
               "N","O","P","Q","R","S","T","U","V","W","X","Y","Z">>

LowerCase == <<"a","b","c","d","e","f","g","h","i","j","k","l","m",
               "n","o","p","q","r","s","t","u","v","w","x","y","z">>

Chars == {UpperCase[i] : i \in DOMAIN UpperCase}
             \cup {LowerCase[i] : i \in DOMAIN LowerCase} \cup {".", "-", "_", " "}

\* the lowercase form of each character
LowerChar ==
    [c \in Chars |->
        IF \E i \in DOMAIN UpperCase : UpperCase[i] = c
        THEN LowerCase[CHOOSE i \in DOMAIN UpperCase : UpperCase[i] = c]
        ELSE c]

\* str.lower()
Lower(s) == [i \in DOMAIN s |-> LowerChar[s[i]]]

\* `sub in s` for two str
Contains(sub, s) ==
    \E i \in 0..(Len(s) - Len(sub)) : SubSeq(s, i + 1, i + Len(sub)) = sub

chrome_exe == <<"c","h","r","o","m","e",".","e","x","e">>

Chrome_EXE == <<"C","h","r","o","m","e",".","E","X","E">>

notepad_exe == <<"n","o","t","e","p","a","d",".","e","x","e">>

Chrome == <<"C","h","r","o","m","e">>

EXE == <<"E","X","E">>

----------------------------------------------------------------------------
(* The insertion-ordered dict restricted_app_timers: a sequence of entries *)
(* with distinct keys.                                                     *)

\* key = f"{pid}:{app_name}": one key per (pid, lowercased name) pair, since
\* the decimal pid holds no ":".
Key(pid, app_name) == <<pid, app_name>>

TimerKeys(timers) == {timers[i].key : i \in DOMAIN timers}

\* key in self.restricted_app_timers
IsTracked(timers, key) == key \in TimerKeys(timers)

\* self.restricted_app_timers[key]
TimerOf(timers, key) == timers[CHOOSE i \in DOMAIN timers : timers[i].key = key]

\* self.restricted_app_timers[key] = value: a new key goes last, an existing
\* key keeps its place
DictSet(timers, key, value) ==
    IF key \in TimerKeys(timers)
    THEN [i \in DOMAIN timers |-> IF timers[i].key = key THEN value ELSE timers[i]]
    ELSE Append(timers, value)

\* self.restricted_app_timers.pop(key, None) for every key of keys
DictPopAll(timers, keys) ==
    SelectSeq(timers, LAMBDA t : t.key \notin keys)

NewTimer(key, pid, app_name, now) ==
    [key |-> key, start_time |-> now, pid |-> pid, name |-> app_name, warned |-> FALSE]

\* The events' 'timestamp' (datetime.now() as text) is payload only and is
\* left out.
DetectedEvent(pid, app_name) ==
    [event |-> "restricted_app_detected", app_name |-> app_name, pid |-> pid]

TerminatedEvent(timer_info) ==
    [event |-> "restricted_app_terminated", app_name |-> timer_info.name,
     pid |-> timer_info.pid]

----------------------------------------------------------------------------
(* check_restricted_apps, first loop: detection *)

\* (mutant) the restricted name is not lowercased before the test
Matches_CaseSensitive(app_name, restricted_app) == Contains(restricted_app, app_name)

\* (mutant) the name must be the restricted name, not merely contain it
Matches_WholeName(app_name, restricted_app) == Lower(restricted_app) = app_name

\* restricted_name in app_name, both lowercased
Matches(app_name, restricted_app) == Contains(Lower(restricted_app), app_name)

\* (mutant) the timer is started anew on every detection of its key
Detect_Restarts(acc, pid, app_name, now) ==
    LET key == Key(pid, app_name)
    IN  [running_restricted_apps |-> acc.running_restricted_apps \cup {key},
         timers |-> DictSet(acc.timers, key, NewTimer(key, pid, app_name, now)),
         events |-> Append(acc.events, DetectedEvent(pid, app_name))]

\* the body of `if restricted_name in app_name:`
Detect(acc, pid, app_name, now) ==
    LET key == Key(pid, app_name)
    IN  IF ~IsTracked(acc.timers, key)
        THEN [running_restricted_apps |-> acc.running_restricted_apps \cup {key},
              timers |-> DictSet(acc.timers, key, NewTimer(key, pid, app_name, now)),
              events |-> Append(acc.events, DetectedEvent(pid, app_name))]
        ELSE [acc EXCEPT !.running_restricted_apps = @ \cup {key}]

RECURSIVE ScanRestricted(_, _, _, _, _)
\* for restricted_app in self.restricted_apps, from index i
ScanRestricted(acc, app, policy, now, i) ==
    IF i > Len(policy) THEN acc
    ELSE LET app_name == Lower(app.name)
         IN  ScanRestricted(IF Matches(app_name, policy[i])
                            THEN Detect(acc, app.pid, app_name, now)
                            ELSE acc,
                            app, policy, now, i + 1)

RECURSIVE ScanApps(_, _, _, _, _)
\* for app in running_apps, from index j
ScanApps(acc, apps, policy, now, j) ==
    IF j > Len(apps) THEN acc
    ELSE ScanApps(ScanRestricted(acc, apps[j], policy, now, 1), apps, policy, now, j + 1)

----------------------------------------------------------------------------
(* check_restricted_apps, second loop: timers *)

\* (mutant) the warned flag is not consulted
WarnDue_Repeats(elapsed_time, warned) == elapsed_time >= WARN_THRESHOLD

\* elapsed_time >= 60 and not timer_info['warned']
WarnDue(elapsed_time, warned) == elapsed_time >= WARN_THRESHOLD /\ ~warned

\* (mutant) the timeout is due as soon as the timer exists
KillDue_AtOnce(elapsed_time) == elapsed_time >= 0

\* (mutant) the timeout itself is not yet due
KillDue_Strict(elapsed_time) == elapsed_time > RESTRICTED_APP_TIMEOUT

\* elapsed_time >= RESTRICTED_APP_TIMEOUT
KillDue(elapsed_time) == elapsed_time >= RESTRICTED_APP_TIMEOUT

\* (mutant) the timer is dropped whether or not the termination succeeded
Terminate_DropsOnFailure(acc, timer_info, ok) ==
    LET called == [acc EXCEPT !.terminate_calls =
                       Append(@, [pid |-> timer_info.pid, name |-> timer_info.name,
                                  ok |-> ok, warned |-> timer_info.warned])]
    IN  IF ok
        THEN [called EXCEPT !.events = Append(@, TerminatedEvent(timer_info)),
                            !.keys_to_remove = @ \cup {timer_info.key}]
        ELSE [called EXCEPT !.keys_to_remove = @ \cup {timer_info.key}]

\* the body of `if elapsed_time >= RESTRICTED_APP_TIMEOUT:` for one timer;
\* ok is what terminate_process returned. The call's record also holds
\* timer_info['warned'] as it stands when the call is made.
Terminate(acc, timer_info, ok) ==
    LET called == [acc EXCEPT !.terminate_calls =
                       Append(@, [pid |-> timer_info.pid, name |-> timer_info.name,
                                  ok |-> ok, warned |-> timer_info.warned])]
    IN  IF ok
        THEN [called EXCEPT !.events = Append(@, TerminatedEvent(timer_info)),
                            !.keys_to_remove = @ \cup {timer_info.key}]
        ELSE called

\* (mutant) the termination is attempted before the warning is looked at
CheckTimer_KillFirst(acc, timer_info, now, kill_ok) ==
    IF timer_info.key \notin acc.running_restricted_apps
    THEN [acc EXCEPT !.keys_to_remove = @ \cup {timer_info.key}]
    ELSE LET elapsed_time == now - timer_info.start_time
             warn == WarnDue(elapsed_time, timer_info.warned)
             acc1 == IF KillDue(elapsed_time)
                     THEN Terminate(acc, timer_info, timer_info.pid \in kill_ok)
                     ELSE acc
         IN  IF warn
             THEN [acc1 EXCEPT !.timers = DictSet(@, timer_info.key,
                                                  [timer_info EXCEPT !.warned = TRUE]),
                               !.warnings = Append(@, timer_info.key)]
             ELSE acc1

\* one iteration of `for key, timer_info in self.restricted_app_timers.items()`
CheckTimer(acc, timer_info, now, kill_ok) ==
    IF timer_info.key \notin acc.running_restricted_apps
    THEN [acc EXCEPT !.keys_to_remove = @ \cup {timer_info.key}]
    ELSE LET elapsed_time == now - timer_info.start_time
             warn == WarnDue(elapsed_time, timer_info.warned)
             warned_info == IF warn THEN [timer_info EXCEPT !.warned = TRUE]
                            ELSE timer_info
             acc1 == IF warn
                     THEN [acc EXCEPT !.timers = DictSet(@, timer_info.key, warned_info),
                                      !.warnings = Append(@, timer_info.key)]
                     ELSE acc
         IN  IF KillDue(elapsed_time)
             THEN Terminate(acc1, warned_info, timer_info.pid \in kill_ok)
             ELSE acc1

RECURSIVE ScanTimers(_, _, _, _, _)
\* the loop walks the dict as it stands after the first loop, from index i
ScanTimers(acc, items, now, kill_ok, i) ==
    IF i > Len(items) THEN acc
    ELSE ScanTimers(CheckTimer(acc, items[i], now, kill_ok), items, now, kill_ok, i + 1)

\* proc_info['name'] is None when psutil could not read the name of the
\* process (agent.py:294-296): the record of such a process has no name
Nameless(app) == "name" \notin DOMAIN app

\* the index of the first app at which `app['name'].lower()` raises; 0 when
\* every app has a name
FirstNameless(apps) ==
    IF \E j \in DOMAIN apps : Nameless(apps[j])
    THEN CHOOSE j \in DOMAIN apps :
             /\ Nameless(apps[j])
             /\ \A k \in 1..(j - 1) : ~Nameless(apps[k])
    ELSE 0

\* check_restricted_apps past its early return: the result of one tick. The
\* first loop stops at the first nameless app with an AttributeError, which
\* nothing in check_restricted_apps catches: the timers started and the
\* events put before it stay, the second loop does not run.
Reconcile(timers, policy, apps, now, kill_ok) ==
    LET bad == FirstNameless(apps)
        seen == IF bad = 0 THEN apps ELSE SubSeq(apps, 1, bad - 1)
        found == ScanApps([running_restricted_apps |-> {}, timers |-> timers,
                           events |-> <<>>], seen, policy, now, 1)
        done == ScanTimers([running_restricted_apps |-> found.running_restricted_apps,
                            timers |-> found.timers, events |-> found.events,
                            keys_to_remove |-> {}, terminate_calls |-> <<>>,
                            warnings |-> <<>>],
                           found.timers, now, kill_ok, 1)
    IN  IF bad # 0
        THEN [timers |-> found.timers, events |-> found.events,
              terminate_calls |-> <<>>, warnings |-> <<>>, raised |-> TRUE]
        ELSE [timers |-> DictPopAll(done.timers, done.keys_to_remove),
              events |-> done.events,
              terminate_calls |-> done.terminate_calls,
              warnings |-> done.warnings,
              raised |-> FALSE]

\* `if not self.restricted_apps: return`
NoPolicy(policy) == policy = <<>>

\* what one call of check_restricted_apps does to the timers, which events,
\* terminations and warnings it produces, and whether it raises
TickResult(timers, policy, apps, now, kill_ok) ==
    IF NoPolicy(policy)
    THEN [timers |-> timers, events |-> <<>>, terminate_calls |-> <<>>,
          warnings |-> <<>>, raised |-> FALSE]
    ELSE Reconcile(timers, policy, apps, now, kill_ok)

\* DesktopAgent.check_restricted_apps with the snapshot apps taken at time
\* now; kill_ok is the set of pids whose termination succeeds
check_restricted_apps(apps, now, kill_ok) ==
    LET r == TickResult(restricted_app_timers, restricted_apps, apps, now, kill_ok)
    IN  /\ now >= current_time
        /\ running_apps' = apps
        /\ current_time' = now
        /\ last_call' = "check_restricted_apps"
        /\ restricted_app_timers' = r.timers
        /\ event_queue' = event_queue \o r.events
        /\ terminate_calls' = r.terminate_calls
        /\ warnings' = r.warnings
        /\ raised' = r.raised
        /\ last_post' = None
        /\ UNCHANGED <<restricted_apps, identity_vars, settings_vars, config_file,
                       message, save_result, running, channel_vars,
                       handler_vars, boot_vars, in_flight>>

----------------------------------------------------------------------------
(* check_restricted_apps step by step, for what another thread can do      *)
(* between its statements: the early return and the snapshot, then one     *)
(* step per app of the first loop, then the second loop. in_flight holds   *)
(* the locals of the call, and policies, the value of                      *)
(* self.restricted_apps that each app of the snapshot was matched against. *)

\* what the steps of the tick leave alone
tick_frame ==
    UNCHANGED <<restricted_apps, identity_vars, settings_vars, config_file, message,
                save_result, running, channel_vars, handler_vars, boot_vars, pc,
                posts, queued, scheduler_vars>>

\* `if not self.restricted_apps: return`, `running_apps =
\* self.get_running_applications()` and `current_time = time.time()`
tick_begin(apps, now) ==
    /\ in_flight = None
    /\ now >= current_time
    /\ running_apps' = apps
    /\ current_time' = now
    /\ last_call' = "check_restricted_apps"
    /\ terminate_calls' = <<>>
    /\ warnings' = <<>>
    /\ raised' = FALSE
    /\ last_post' = None
    /\ in_flight' = IF NoPolicy(restricted_apps) THEN None
                    ELSE Some([apps |-> apps, now |-> now, next |-> 1,
                               running_restricted_apps |-> {}, policies |-> <<>>])
    /\ UNCHANGED <<restricted_app_timers, event_queue>>
    /\ tick_frame

\* one iteration of `for app in running_apps:`; its inner loop walks the
\* list self.restricted_apps is bound to when the iteration reaches it
tick_app ==
    /\ in_flight # None
    /\ in_flight[1].next <= Len(in_flight[1].apps)
    /\ LET tick == in_flight[1]
           app == tick.apps[tick.next]
           acc == ScanRestricted([running_restricted_apps |-> tick.running_restricted_apps,
                                  timers |-> restricted_app_timers, events |-> <<>>],
                                 app, restricted_apps, tick.now, 1)
       IN  IF Nameless(app)
           THEN /\ raised' = TRUE
                /\ in_flight' = None
                /\ UNCHANGED <<restricted_app_timers, event_queue>>
           ELSE /\ raised' = FALSE
                /\ restricted_app_timers' = acc.timers
                /\ event_queue' = event_queue \o acc.events
                /\ in_flight' =
                       Some([tick EXCEPT
                                 !.next = @ + 1,
                                 !.running_restricted_apps = acc.running_restricted_apps,
                                 !.policies = Append(@, restricted_apps)])
    /\ UNCHANGED <<running_apps, current_time, terminate_calls, warnings, last_call,
                   last_post>>
    /\ tick_frame

\* the second loop and the removal of the keys, after the last app
tick_timers(kill_ok) ==
    /\ in_flight # None
    /\ in_flight[1].next > Len(in_flight[1].apps)
    /\ LET tick == in_flight[1]
           done == ScanTimers([running_restricted_apps |-> tick.running_restricted_apps,
                               timers |-> restricted_app_timers, events |-> <<>>,
                               keys_to_remove |-> {}, terminate_calls |-> <<>>,
                               warnings |-> <<>>],
                              restricted_app_timers, tick.now, kill_ok, 1)
       IN  /\ restricted_app_timers' = DictPopAll(done.timers, done.keys_to_remove)
           /\ event_queue' = event_queue \o done.events
           /\ terminate_calls' = done.terminate_calls
           /\ warnings' = done.warnings
    /\ in_flight' = None
    /\ UNCHANGED <<running_apps, current_time, last_call, raised, last_post>>
    /\ tick_frame

----------------------------------------------------------------------------
(* send_event_data *)

\* how requests.post ends: with an exception, or with a response
Exception == [exception |-> TRUE]

Response(status_code) == [exception |-> FALSE, status_code |-> status_code]

\* response.status_code == 200 or response.status_code == 201
Accepted(outcome) == ~outcome.exception /\ outcome.status_code \in {200, 201}

\* (mutant) one event is taken from the queue, not all of them
Drained_One(queue) == <<Head(queue)>>

\* (mutant) the queue is emptied from its newest end
Drained_Reversed(queue) == [i \in DOMAIN queue |-> queue[Len(queue) + 1 - i]]

\* `while not self.event_queue.empty(): events.append(self.event_queue.get_nowait())`:
\* the list events
Drained(queue) == queue

\* (mutant) a batch the server did not accept is put back on the queue
Remaining_Requeues(queue, outcome) == IF Accepted(outcome) THEN <<>> ELSE queue

\* the queue when send_event_data returns: neither branch of the status test
\* nor the except clause puts anything back
Remaining(queue, outcome) == <<>>

\* DesktopAgent.send_event_data, its POST ending with outcome: nothing is
\* posted from an empty queue, and no exception leaves the method
send_event_data(outcome) ==
    /\ last_post' = IF event_queue = <<>> THEN None
                    ELSE Some([events |-> Drained(event_queue), outcome |-> outcome])
    /\ event_queue' = Remaining(event_queue, outcome)
    /\ raised' = FALSE
    /\ last_call' = "send_event_data"
    /\ UNCHANGED <<restricted_apps, restricted_app_timers, running_apps, current_time,
                   terminate_calls, warnings, identity_vars, settings_vars,
                   config_file, message, save_result, running, channel_vars,
                   handler_vars, boot_vars, in_flight>>

----------------------------------------------------------------------------
(* The config file and the JSON objects: a JSON object is a record whose   *)
(* domain is the set of its keys.                                          *)

EmptyDict == [k \in {} |-> TRUE]

\* `k in d`
Has(d, k) == k \in DOMAIN d

\* d.get(k, default)
Get(d, k, default) == IF k \in DOMAIN d THEN d[k] ELSE default

MissingFile == [state |-> "missing", content |-> EmptyDict]

CorruptFile == [state |-> "corrupt", content |-> EmptyDict]

JsonFile(content) == [state |-> "json", content |-> content]

\* the dict save_config builds
ConfigDict(dev, org, api, wsurl, shot, act, idle, apps) ==
    [device_id |-> dev, organization_id |-> org, api_endpoint |-> api,
     ws_endpoint |-> wsurl, screenshot_enabled |-> shot,
     activity_tracking_enabled |-> act, idle_threshold |-> idle,
     restricted_apps |-> apps]

\* (mutant) save_config leaves the file as it is
Saved_KeepsFile(file, config, disk) == file

\* The file after save_config wrote config: open(CONFIG_PATH, "w") may fail
\* (file untouched), or json.dump may fail after the file was truncated.
Saved(file, config, disk) ==
    CASE disk = "ok" -> JsonFile(config)
      [] disk = "open_error" -> file
      [] disk = "write_error" -> CorruptFile

DiskOutcomes == {"ok", "open_error", "write_error"}

\* (mutant) a write that fails raises out of save_config
SaveRaises_Propagates(disk) == disk # "ok"

\* an exception leaves save_config: never, its body is one try block whose
\* except clause logs the error
SaveRaises(disk) == FALSE

----------------------------------------------------------------------------
(* connect_websocket.on_message *)

\* (mutant) the list of the message is added to the list in force
UpdatedApps_Merges(old, data) ==
    old \o Get(Get(data, "data", EmptyDict), "restricted_apps", <<>>)

\* self.restricted_apps = data.get('data', {}).get('restricted_apps', []),
\* whatever the list old in force was
UpdatedApps(old, data) == Get(Get(data, "data", EmptyDict), "restricted_apps", <<>>)

\* (mutant) a setting the message leaves out falls back to its default
Merged_Defaults(old, config_data, k) ==
    Get(config_data, k, IF k = "idle_threshold" THEN DEFAULT_IDLE_THRESHOLD ELSE TRUE)

\* `if k in config_data: self.k = config_data[k]`
Merged(old, config_data, k) == IF Has(config_data, k) THEN config_data[k] ELSE old

\* a message text that is no JSON document: json.loads raises on it
NotJson == [json |-> "invalid"]

\* JSON values that are no object: null, a string and an array, neither of
\* the two holding a key the handler looks for
JsonNull == [json |-> "null"]

JsonStr == [json |-> "str"]

JsonList == [json |-> "list"]

\* the value is a dict: no JSON object of a message has the key "json"
IsDict(v) == ~Has(v, "json")

\* The try block raises: json.loads on a text that is no JSON, data.get on a
\* value that is no dict, .get('restricted_apps', []) on a data that is no
\* dict, `'pid' in app_data` and `'screenshot_enabled' in config_data` on None.
\* Each of them raises before the handler has assigned anything.
HandlerRaises(data) ==
    \/ ~IsDict(data)
    \/ /\ Get(data, "event", "None") = "restricted_apps_update"
       /\ ~IsDict(Get(data, "data", EmptyDict))
    \/ /\ Get(data, "event", "None") \in {"config_update", "terminate_application"}
       /\ Get(data, "data", EmptyDict) = JsonNull

\* the tags the if/elif chain has a branch for
KnownEvents ==
    {"restricted_apps_update", "config_update", "take_screenshot_now",
     "terminate_application"}

\* (mutant) a tag without a branch is handled as a config_update
Dispatch_DefaultsToConfig(event) ==
    IF event \in KnownEvents THEN event ELSE "config_update"

\* the branch of the if/elif chain taken for data.get('event'): the chain has
\* no else
Dispatch(event) == IF event \in KnownEvents THEN event ELSE "None"

\* (mutant) a requested screenshot is taken whatever the configuration says
ScreenshotNow_Always(post) ==
    <<Call("take_screenshot", TRUE),
      Call("send_screenshot", Accepted(post) /\ TruthyInt(organization_id))>>

\* (mutant) the capture waits for the interval of the periodic screenshot
ScreenshotNow_Periodic(post) ==
    IF loop_time - last_screenshot_time >= SCREENSHOT_INTERVAL /\ screenshot_enabled
    THEN <<Call("take_screenshot", TRUE), Call("send_screenshot", Accepted(post))>>
    ELSE <<>>

\* `screenshot_data = self.take_screenshot()` and `if screenshot_data:
\* self.send_screenshot(screenshot_data)`; post is how the POST ends
ScreenshotNow(post) ==
    IF screenshot_enabled
    THEN <<Call("take_screenshot", TRUE),
           Call("send_screenshot", Accepted(post) /\ TruthyInt(organization_id))>>
    ELSE <<Call("take_screenshot", FALSE)>>

\* the call record of self.terminate_process(pid, name) that returned ok
TerminateCall(pid, name, ok) ==
    [call |-> "terminate_process", pid |-> pid, name |-> name, ok |-> ok]

\* (mutant) only a process the enforcement engine holds a timer for is
\* terminated
TerminateNow_TrackedOnly(app_data, kill_ok) ==
    IF /\ Has(app_data, "pid") /\ Has(app_data, "name")
       /\ \E i \in DOMAIN restricted_app_timers :
              restricted_app_timers[i].pid = app_data.pid
    THEN <<TerminateCall(app_data.pid, app_data.name, kill_ok)>>
    ELSE <<>>

\* `if 'pid' in app_data and 'name' in app_data: self.terminate_process(...)`
TerminateNow(app_data, kill_ok) ==
    IF Has(app_data, "pid") /\ Has(app_data, "name")
    THEN <<TerminateCall(app_data.pid, app_data.name, kill_ok)>>
    ELSE <<>>

\* on_message for data, what json.loads made of the message text (NotJson when
\* it raised); disk is how the config write ends, post how the POST of the
\* screenshot ends, kill_ok whether terminate_process succeeds
on_message(data, disk, post, kill_ok) ==
    LET event == IF HandlerRaises(data) THEN "None"
                 ELSE Dispatch(Get(data, "event", "None"))
        config_data == Get(data, "data", EmptyDict)
    IN  /\ message' = data
        /\ last_call' = "on_message"
        /\ handler_raised' =
               \/ HandlerRaises(data)
               \/ /\ event \in {"restricted_apps_update", "config_update"}
                  /\ SaveRaises(disk)
        /\ restricted_apps' = IF event = "restricted_apps_update"
                              THEN UpdatedApps(restricted_apps, data)
                              ELSE restricted_apps
        /\ screenshot_enabled' =
               IF event = "config_update"
               THEN Merged(screenshot_enabled, config_data, "screenshot_enabled")
               ELSE screenshot_enabled
        /\ activity_tracking_enabled' =
               IF event = "config_update"
               THEN Merged(activity_tracking_enabled, config_data,
                           "activity_tracking_enabled")
               ELSE activity_tracking_enabled
        /\ idle_threshold' =
               IF event = "config_update"
               THEN Merged(idle_threshold, config_data, "idle_threshold")
               ELSE idle_threshold
        /\ IF event \in {"restricted_apps_update", "config_update"}
           THEN /\ save_result' = disk
                /\ config_file' =
                       Saved(config_file,
                             ConfigDict(device_id, organization_id, api_endpoint,
                                        ws_endpoint, screenshot_enabled',
                                        activity_tracking_enabled', idle_threshold',
                                        restricted_apps'),
                             disk)
           ELSE /\ save_result' = "none"
                /\ UNCHANGED config_file
        /\ handler_calls' =
               CASE event = "take_screenshot_now" -> ScreenshotNow(post)
                 [] event = "terminate_application" -> TerminateNow(config_data, kill_ok)
                 [] OTHER -> <<>>
        /\ UNCHANGED <<enforcement_vars, identity_vars, pc, raised, report_vars,
                       scheduler_vars, running, channel_vars, boot_vars, in_flight>>

----------------------------------------------------------------------------
(* Construction: __init__ and load_config *)

\* load_config: the attributes after it ran on the freshly built agent mem
load_config(mem, file, args) ==
    IF file.state # "json" THEN mem
    ELSE LET config == file.content
         IN  [device_id |->
                  IF ~TruthyStr(mem.device_id) /\ Has(config, "device_id")
                  THEN config.device_id ELSE mem.device_id,
              organization_id |->
                  IF ~TruthyInt(mem.organization_id) /\ Has(config, "organization_id")
                  THEN config.organization_id ELSE mem.organization_id,
              api_endpoint |->
                  IF args.api_url = None /\ Has(config, "api_endpoint")
                  THEN config.api_endpoint ELSE mem.api_endpoint,
              ws_endpoint |->
                  IF args.ws_url = None /\ Has(config, "ws_endpoint")
                  THEN config.ws_endpoint ELSE mem.ws_endpoint,
              screenshot_enabled |->
                  Get(config, "screenshot_enabled", mem.screenshot_enabled),
              activity_tracking_enabled |->
                  Get(config, "activity_tracking_enabled", mem.activity_tracking_enabled),
              idle_threshold |-> Get(config, "idle_threshold", mem.idle_threshold),
              restricted_apps |-> Get(config, "restricted_apps", mem.restricted_apps)]

\* the attributes __init__ sets before load_config
Constructed(args) ==
    [device_id |-> "uuid4",
     organization_id |-> args.org_id,
     api_endpoint |-> IF args.api_url # None THEN args.api_url[1] ELSE "DEFAULT_API_ENDPOINT",
     ws_endpoint |-> IF args.ws_url # None THEN args.ws_url[1] ELSE "DEFAULT_WS_ENDPOINT",
     screenshot_enabled |-> TRUE,
     activity_tracking_enabled |-> TRUE,
     idle_threshold |-> DEFAULT_IDLE_THRESHOLD,
     restricted_apps |-> <<>>]

\* The state after DesktopAgent() ran with the command line args and the
\* config file as found on disk. Where run() and run_websocket stand (pc,
\* ws_pc, needs_init) is said by the Init of each specification: most of them
\* start behind the bootstrap of run().
Constructor(args, file) ==
    LET mem == load_config(Constructed(args), file, args)
    IN  /\ device_id = mem.device_id
        /\ organization_id = mem.organization_id
        /\ api_endpoint = mem.api_endpoint
        /\ ws_endpoint = mem.ws_endpoint
        /\ screenshot_enabled = mem.screenshot_enabled
        /\ activity_tracking_enabled = mem.activity_tracking_enabled
        /\ idle_threshold = mem.idle_threshold
        /\ restricted_apps = mem.restricted_apps
        /\ restricted_app_timers = <<>>
        /\ event_queue = <<>>
        /\ config_file = file
        /\ running_apps = <<>>
        /\ current_time = 0
        /\ terminate_calls = <<>>
        /\ warnings = <<>>
        /\ last_call = "__init__"
        /\ message = EmptyDict
        /\ save_result = "none"
        /\ raised = FALSE
        /\ last_post = None
        /\ posts = <<>>
        /\ queued = <<>>
        /\ fired = <<>>
        /\ loop_time = 0
        /\ last_screenshot_time = 0
        /\ last_heartbeat_time = 0
        /\ running = TRUE
        /\ connected = FALSE
        /\ ws = "None"
        /\ ws_sent = <<>>
        /\ ws_delay = 0
        /\ handler_calls = <<>>
        /\ handler_raised = FALSE
        /\ registration = None
        /\ retry_delay = 0
        /\ in_flight = None

----------------------------------------------------------------------------
(* run(): the loop of the reporting scheduler. One action per statement of *)
(* the loop body; fired lists the calls of the current wake, each with     *)
(* whether it ended well.                                                  *)

\* (mutant) an exception raised in the loop body leaves run()
CatchInLoop_Propagates(next) == "exited"

\* where the loop goes on after a call of its body raised: the except clause
\* of the loop's one try statement
CatchInLoop(next) == "except"

\* the statement that follows a call of the loop body that is at next when
\* the call returns
AfterCall(did_raise, next) == IF did_raise THEN CatchInLoop(next) ELSE next

\* self.organization_id is set: without it the send_* methods return False
\* before they post
CanReport == TruthyInt(organization_id)

\* (mutant) the reports come first and the enforcement tick last
LoopBody_ReportsFirst ==
    <<"track_activity", "take_screenshot", "send_heartbeat", "send_event_data",
      "check_restricted_apps", "sleep">>

\* (mutant) the loop only reports
LoopBody_ReportsOnly ==
    <<"track_activity", "take_screenshot", "send_heartbeat", "send_event_data", "sleep">>

\* the statements of the loop's try block, in the order of the text
LoopBody ==
    <<"check_restricted_apps", "track_activity", "take_screenshot", "send_heartbeat",
      "send_event_data", "sleep">>

\* the statement after statement in the try block
Following(statement) ==
    LoopBody[1 + CHOOSE i \in DOMAIN LoopBody : LoopBody[i] = statement]

\* `while self.running:` and `current_time = time.time()`, the clock reading now
run_while(now) ==
    /\ pc = "while"
    /\ now >= loop_time
    /\ IF running
       THEN /\ pc' = LoopBody[1]
            /\ loop_time' = now
            /\ fired' = <<>>
       ELSE /\ pc' = "exited"
            /\ UNCHANGED <<loop_time, fired>>
    /\ UNCHANGED <<restricted_apps, enforcement_vars, last_call, message, save_result,
                   identity_vars, settings_vars, config_file, raised, report_vars,
                   last_screenshot_time, last_heartbeat_time, running, channel_vars,
                   handler_vars, boot_vars, in_flight>>

\* `self.check_restricted_apps()`; the clock the tick reads is the wake's
run_check(apps, kill_ok) ==
    /\ pc = "check_restricted_apps"
    /\ check_restricted_apps(apps, loop_time, kill_ok)
    /\ fired' = Append(fired, Call("check_restricted_apps", ~raised'))
    /\ pc' = AfterCall(raised', Following("check_restricted_apps"))
    /\ UNCHANGED <<posts, queued, loop_time, last_screenshot_time, last_heartbeat_time>>

\* `activity_data = self.track_activity()` and `if activity_data:
\* self.send_activity_data(activity_data)`; ok is whether the POST was accepted
run_activity(ok) ==
    /\ pc = "track_activity"
    /\ fired' = IF activity_tracking_enabled
                THEN fired \o <<Call("track_activity", TRUE),
                                Call("send_activity_data", ok /\ CanReport)>>
                ELSE Append(fired, Call("track_activity", FALSE))
    /\ pc' = Following("track_activity")
    /\ last_call' = "track_activity"
    /\ UNCHANGED <<restricted_apps, enforcement_vars, message, save_result,
                   identity_vars, settings_vars, config_file, raised, report_vars,
                   loop_time, last_screenshot_time, last_heartbeat_time, running,
                   channel_vars, handler_vars, boot_vars, in_flight>>

\* `if current_time - last_screenshot_time >= SCREENSHOT_INTERVAL:` with its body
run_screenshot(ok) ==
    /\ pc = "take_screenshot"
    /\ IF loop_time - last_screenshot_time >= SCREENSHOT_INTERVAL
       THEN /\ fired' = IF screenshot_enabled
                        THEN fired \o <<Call("take_screenshot", TRUE),
                                        Call("send_screenshot", ok /\ CanReport)>>
                        ELSE Append(fired, Call("take_screenshot", FALSE))
            /\ last_screenshot_time' = loop_time
       ELSE UNCHANGED <<fired, last_screenshot_time>>
    /\ pc' = Following("take_screenshot")
    /\ last_call' = "take_screenshot"
    /\ UNCHANGED <<restricted_apps, enforcement_vars, message, save_result,
                   identity_vars, settings_vars, config_file, raised, report_vars,
                   loop_time, last_heartbeat_time, running, channel_vars,
                   handler_vars, boot_vars, in_flight>>

\* `if current_time - last_heartbeat_time >= HEARTBEAT_INTERVAL:` with its body
run_heartbeat(ok) ==
    /\ pc = "send_heartbeat"
    /\ IF loop_time - last_heartbeat_time >= HEARTBEAT_INTERVAL
       THEN /\ fired' = Append(fired, Call("send_heartbeat", ok /\ CanReport))
            /\ last_heartbeat_time' = loop_time
       ELSE UNCHANGED <<fired, last_heartbeat_time>>
    /\ pc' = Following("send_heartbeat")
    /\ last_call' = "send_heartbeat"
    /\ UNCHANGED <<restricted_apps, enforcement_vars, message, save_result,
                   identity_vars, settings_vars, config_file, raised, report_vars,
                   loop_time, last_screenshot_time, running, channel_vars,
                   handler_vars, boot_vars, in_flight>>

\* `self.send_event_data()`
run_flush(outcome) ==
    /\ pc = "send_event_data"
    /\ send_event_data(outcome)
    /\ fired' = Append(fired, Call("send_event_data",
                                   last_post' = None \/ Accepted(outcome)))
    /\ pc' = Following("send_event_data")
    /\ UNCHANGED <<posts, queued, loop_time, last_screenshot_time, last_heartbeat_time>>

\* `time.sleep(ACTIVITY_CHECK_INTERVAL)` at the end of the try block, and the
\* except clause, which logs the error and sleeps as long
run_sleep ==
    /\ pc \in {"sleep", "except"}
    /\ pc' = "while"
    /\ raised' = FALSE
    /\ UNCHANGED <<restricted_apps, enforcement_vars, last_call, message, save_result,
                   identity_vars, settings_vars, config_file, report_vars,
                   scheduler_vars, running, channel_vars,
                   handler_vars, boot_vars, in_flight>>

\* handle_signal: SIGINT or SIGTERM arrived
handle_signal ==
    /\ running' = FALSE
    /\ UNCHANGED <<restricted_apps, enforcement_vars, last_call, pc, message,
                   save_result, identity_vars, settings_vars, config_file, raised,
                   report_vars, scheduler_vars, channel_vars,
                   handler_vars, boot_vars, in_flight>>

\* `if not self.device_id or not self.organization_id: return` fails
CanConnect == TruthyStr(device_id) /\ TruthyInt(organization_id)

----------------------------------------------------------------------------
(* The control channel: connect_websocket's callbacks and run_websocket.   *)
(* self.ws is "None", or the WebSocketApp: "created", "open" or "closed".  *)

\* what __init__ reads from the platform
Platform ==
    [username |-> "getuser", hostname |-> "node", os_type |-> "system",
     os_release |-> "release", os_version |-> "version"]

\* the message on_open sends; f"{self.os_release} ({self.os_version})" is the
\* sequence of its parts
AgentConnected ==
    [event |-> "agent_connected",
     userId |-> device_id,
     organizationId |-> organization_id,
     data |-> [device_id |-> device_id,
               username |-> Platform.username,
               hostname |-> Platform.hostname,
               os_type |-> Platform.os_type,
               os_version |-> <<Platform.os_release, " (", Platform.os_version, ")">>]]

\* (mutant) the connection is flagged and nothing is sent
on_open_Silent == connected' = TRUE /\ UNCHANGED ws_sent

on_open ==
    /\ connected' = TRUE
    /\ ws_sent' = Append(ws_sent, AgentConnected)

on_error ==
    /\ connected' = FALSE
    /\ UNCHANGED ws_sent

\* (mutant) the flag is left as it is when the connection closes
on_close_KeepsFlag == UNCHANGED <<connected, ws_sent>>

on_close ==
    /\ connected' = FALSE
    /\ UNCHANGED ws_sent

\* (mutant) an exception raised in the loop body leaves run_websocket
CatchInWebsocket_Propagates == "exited"

\* where run_websocket goes on after its loop body raised: its except clause
CatchInWebsocket == "except"

\* what the channel's steps leave alone
ws_frame ==
    UNCHANGED <<restricted_apps, enforcement_vars, last_call, pc, message, save_result,
                identity_vars, settings_vars, config_file, raised, report_vars,
                scheduler_vars, running, handler_vars, boot_vars, in_flight>>

\* `while self.running:` and `if not self.connected:`
ws_while ==
    /\ ws_pc = "while"
    /\ ws_pc' = IF ~running THEN "exited"
                ELSE IF connected THEN "while" ELSE "connect_websocket"
    /\ UNCHANGED <<connected, ws, ws_sent, ws_delay>>
    /\ ws_frame

\* `self.connect_websocket()`: without device or organization id it returns
\* before it builds the WebSocketApp
connect_websocket ==
    /\ ws_pc = "connect_websocket"
    /\ ws_pc' = "run_forever"
    /\ IF CanConnect
       THEN ws' = "created" /\ ws_sent' = <<>>
       ELSE UNCHANGED <<ws, ws_sent>>
    /\ UNCHANGED <<connected, ws_delay>>
    /\ ws_frame

\* `self.ws.run_forever(...)` is called: the connection opens (on_open), or
\* fails (on_error, and run_forever returns), or the call raises
run_forever(attempt) ==
    /\ ws_pc = "run_forever"
    /\ ws # "open"
    /\ IF ws = "None" \/ attempt = "raise"
       THEN /\ ws_pc' = CatchInWebsocket
            /\ ws_delay' = 0
            /\ UNCHANGED <<connected, ws, ws_sent>>
       ELSE IF attempt = "open"
            THEN /\ on_open
                 /\ ws' = "open"
                 /\ ws_pc' = "run_forever"
                 /\ UNCHANGED ws_delay
            ELSE /\ on_error
                 /\ ws' = "closed"
                 /\ ws_pc' = "sleep"
                 /\ ws_delay' = 0
    /\ ws_frame

\* the open connection errors (on_error) or is closed (on_close), and
\* run_forever returns
connection_lost(how) ==
    /\ ws_pc = "run_forever"
    /\ ws = "open"
    /\ IF how = "error" THEN on_error ELSE on_close
    /\ ws' = "closed"
    /\ ws_pc' = "sleep"
    /\ ws_delay' = 0
    /\ ws_frame

\* `time.sleep(5)`, after run_forever returned and in the except clause
ws_sleep ==
    /\ ws_pc \in {"sleep", "except"}
    /\ ws_pc' = "while"
    /\ ws_delay' = RECONNECT_DELAY
    /\ UNCHANGED <<connected, ws, ws_sent>>
    /\ ws_frame

----------------------------------------------------------------------------
(* main() and the bootstrap of run(). pc is "main" where main() is about   *)
(* to call agent.run(), "register_with_server" and "retry" in the          *)
(* `if self.needs_init:` block, "start_thread" behind it, the statements   *)
(* of the loop, "exited" when the loop ended, "break" at main()'s test of  *)
(* agent.running and "done" when main() returned. ws_pc is "unstarted"     *)
(* while self.ws_thread is None.                                           *)

\* the JSON body of the POST to /agent-register, as far as the identity goes
RegisterRequest == [device_id |-> device_id, organization_id |-> organization_id]

\* a response with a body: what response.json() returns, NotJson when it raises
RegisterResponse(status_code, body) ==
    [exception |-> FALSE, status_code |-> status_code, body |-> body]

\* (mutant) every response counts as a registration
Registers_AnyResponse(outcome) == ~outcome.exception

\* register_with_server returns True: the status is 200 or 201, and neither
\* response.json() nor `'settings' in response_data` raises
Registers(outcome) ==
    /\ Accepted(outcome)
    /\ outcome.body \notin {NotJson, JsonNull}

\* (mutant) main() calls agent.run() again whatever the flag says
AfterRun_Restarts == "main"

\* `if not agent.running: break`
AfterRun == IF ~running THEN "done" ELSE "main"

\* what the steps of main() and of run()'s bootstrap leave alone
main_frame ==
    UNCHANGED <<enforcement_vars, message, identity_vars, raised, report_vars, fired,
                loop_time, running, connected, ws, ws_sent, ws_delay, handler_vars,
                in_flight>>

\* `agent.run()` is called and tests self.needs_init
main_run ==
    /\ pc = "main"
    /\ pc' = IF needs_init THEN "register_with_server" ELSE "start_thread"
    /\ retry_delay' = 0
    /\ UNCHANGED <<restricted_apps, settings_vars, config_file, save_result, last_call,
                   needs_init, registration, last_screenshot_time, last_heartbeat_time,
                   ws_pc>>
    /\ main_frame

\* `if self.register_with_server(): self.needs_init = False`; outcome is how
\* the POST ends, disk how the config write ends
register_with_server(outcome, disk) ==
    LET posted == TruthyInt(organization_id)
        accepted == posted /\ Registers(outcome)
        ok == accepted /\ ~SaveRaises(disk)
        settings == IF accepted /\ IsDict(outcome.body)
                    THEN Get(outcome.body, "settings", EmptyDict)
                    ELSE EmptyDict
    IN  /\ pc = "register_with_server"
        /\ last_call' = "register_with_server"
        /\ registration' = IF posted
                           THEN Some([request |-> RegisterRequest, outcome |-> outcome])
                           ELSE registration
        /\ screenshot_enabled' = Merged(screenshot_enabled, settings, "screenshot_enabled")
        /\ activity_tracking_enabled' =
               Merged(activity_tracking_enabled, settings, "activity_tracking_enabled")
        /\ idle_threshold' = Merged(idle_threshold, settings, "idle_threshold")
        /\ restricted_apps' = Merged(restricted_apps, settings, "restricted_apps")
        /\ IF accepted
           THEN /\ save_result' = disk
                /\ config_file' =
                       Saved(config_file,
                             ConfigDict(device_id, organization_id, api_endpoint,
                                        ws_endpoint, screenshot_enabled',
                                        activity_tracking_enabled', idle_threshold',
                                        restricted_apps'),
                             disk)
           ELSE UNCHANGED <<save_result, config_file>>
        /\ needs_init' = ~ok
        /\ pc' = IF ok THEN "start_thread" ELSE "retry"
        /\ UNCHANGED <<retry_delay, last_screenshot_time, last_heartbeat_time, ws_pc>>
        /\ main_frame

\* `time.sleep(30)` and `return`, after a registration that failed
run_retry ==
    /\ pc = "retry"
    /\ pc' = "break"
    /\ retry_delay' = REGISTER_RETRY_DELAY
    /\ UNCHANGED <<restricted_apps, settings_vars, config_file, save_result, last_call,
                   needs_init, registration, last_screenshot_time, last_heartbeat_time,
                   ws_pc>>
    /\ main_frame

\* `if not self.ws_thread or not self.ws_thread.is_alive():` starts the
\* thread of run_websocket; then the two timestamps are set to the clock, now
run_start_thread(now) ==
    /\ pc = "start_thread"
    /\ now >= loop_time
    /\ pc' = "while"
    /\ ws_pc' = IF ws_pc \in {"unstarted", "exited"} THEN "while" ELSE ws_pc
    /\ last_screenshot_time' = now
    /\ last_heartbeat_time' = now
    /\ UNCHANGED <<restricted_apps, settings_vars, config_file, save_result, last_call,
                   needs_init, registration, retry_delay>>
    /\ main_frame

\* run() returned, after its loop ended or without a registration, and
\* main() tests agent.running
main_break ==
    /\ pc \in {"exited", "break"}
    /\ pc' = AfterRun
    /\ UNCHANGED <<restricted_apps, settings_vars, config_file, save_result, last_call,
                   needs_init, registration, retry_delay, last_screenshot_time,
                   last_heartbeat_time, ws_pc>>
    /\ main_frame

----------------------------------------------------------------------------
(* Inputs *)

\* restricted-app lists the server sends
Policies == {<<>>, <<Chrome>>, <<Chrome, EXE>>}

Pids == {100, 200}

\* process snapshots: the names as the operating system reports them
Snapshots ==
    {<<>>,
     <<[pid |-> 100, name |-> chrome_exe]>>,
     <<[pid |-> 100, name |-> Chrome_EXE]>>,
     <<[pid |-> 100, name |-> notepad_exe]>>,
     <<[pid |-> 100, name |-> chrome_exe], [pid |-> 200, name |-> notepad_exe]>>,
     <<[pid |-> 200, name |-> notepad_exe], [pid |-> 100, name |-> chrome_exe]>>}

\* clock readings of the ticks, in seconds
Instants == {0, 60, 65, 120, 121} \cup (122..MaxTime)

CommandLines ==
    {[org_id |-> None, api_url |-> None, ws_url |-> None],
     [org_id |-> Some(1), api_url |-> Some("cli_api"), ws_url |-> None]}

ConfigFiles ==
    {MissingFile, CorruptFile,
     JsonFile(ConfigDict("persisted", Some(2), "file_api", "file_ws", FALSE, TRUE, 600,
                         <<Chrome>>)),
     JsonFile([idle_threshold |-> 600, activity_tracking_enabled |-> FALSE])}

RestrictedAppsUpdates ==
    {[event |-> "restricted_apps_update", data |-> [restricted_apps |-> l]] :
         l \in Policies}
    \cup {[event |-> "restricted_apps_update", data |-> EmptyDict],
          [event |-> "restricted_apps_update"]}

\* the JSON object {k: o} of an optional value o: {} when o is None
Field(k, o) == IF o = None THEN EmptyDict ELSE (k :> o[1])

ConfigDatas ==
    {Field("screenshot_enabled", shot) @@ Field("activity_tracking_enabled", act)
         @@ Field("idle_threshold", idle) :
        shot \in {None, Some(TRUE), Some(FALSE)},
        act \in {None, Some(TRUE), Some(FALSE)},
        idle \in {None, Some(600)}}

ConfigUpdates ==
    {[event |-> "config_update", data |-> d] : d \in ConfigDatas}
    \cup {[event |-> "config_update"]}

OtherMessages == {[event |-> "ping"], [data |-> EmptyDict]}

\* messages with a tag the handler has no branch for, or with no tag
UnknownMessages ==
    OtherMessages
    \cup {[event |-> "ping",
           data |-> [restricted_apps |-> <<>>, screenshot_enabled |-> FALSE,
                     pid |-> 100, name |-> chrome_exe]]}

\* texts that are no JSON, JSON values that are no object, and known tags
\* whose data is missing or of the wrong shape
MalformedMessages ==
    {NotJson, JsonNull, JsonList,
     [event |-> "restricted_apps_update"],
     [event |-> "restricted_apps_update", data |-> EmptyDict],
     [event |-> "restricted_apps_update", data |-> JsonStr],
     [event |-> "config_update"],
     [event |-> "config_update", data |-> JsonNull],
     [event |-> "config_update", data |-> JsonList],
     [event |-> "terminate_application"],
     [event |-> "terminate_application", data |-> JsonNull],
     [event |-> "terminate_application", data |-> [pid |-> 100]]}

ScreenshotRequests == {[event |-> "take_screenshot_now"]}

TerminateRequests ==
    {[event |-> "terminate_application", data |-> [pid |-> p, name |-> chrome_exe]] :
         p \in Pids}

\* how the POST to /agent-register can end: no answer, a refusal, a body that
\* is no JSON, and acceptances without settings and with some
RegisterOutcomes ==
    {Exception,
     RegisterResponse(403, EmptyDict),
     RegisterResponse(200, NotJson),
     RegisterResponse(201, EmptyDict),
     RegisterResponse(200, [settings |-> [restricted_apps |-> <<Chrome>>,
                                          screenshot_enabled |-> FALSE]]),
     RegisterResponse(200, [settings |-> [idle_threshold |-> 600]])}

\* the messages of the handler's runs
HandlerMessages ==
    UnknownMessages \cup MalformedMessages \cup ScreenshotRequests \cup TerminateRequests
    \cup {[event |-> "restricted_apps_update", data |-> [restricted_apps |-> <<Chrome>>]],
          [event |-> "config_update", data |-> [screenshot_enabled |-> FALSE]],
          [event |-> "config_update", data |-> [screenshot_enabled |-> TRUE]]}

----------------------------------------------------------------------------
(* Specifications *)

\* run() is behind its bootstrap: the agent registered and the thread of
\* run_websocket was started; statement is where run()'s loop stands
Started(statement) ==
    /\ needs_init = FALSE
    /\ pc = statement
    /\ ws_pc = "while"

\* the pids terminate_process can be called for in a tick
TrackedPids == {restricted_app_timers[i].pid : i \in DOMAIN restricted_app_timers}

Tick ==
    \E apps \in Snapshots, now \in Instants, kill_ok \in SUBSET TrackedPids :
        check_restricted_apps(apps, now, kill_ok)

PolicyPush ==
    /\ CanConnect
    /\ \E l \in Policies :
           on_message([event |-> "restricted_apps_update",
                       data |-> [restricted_apps |-> l]], "ok", Response(200), TRUE)

\* run()'s loop, as far as the enforcement engine and the event queue go:
\* check_restricted_apps, then send_event_data, then the sleep
RunCheck ==
    /\ pc = "check_restricted_apps"
    /\ pc' = "send_event_data"
    /\ Tick
    /\ UNCHANGED <<posts, queued, scheduler_vars>>

RunSend ==
    /\ pc = "send_event_data"
    /\ pc' = "check_restricted_apps"
    /\ send_event_data(Response(200))
    /\ UNCHANGED <<posts, queued, scheduler_vars>>

\* a fresh install started with an organization id
InitEnforce ==
    /\ Constructor([org_id |-> Some(1), api_url |-> None, ws_url |-> None], MissingFile)
    /\ Started("check_restricted_apps")

NextEnforce == RunCheck \/ RunSend \/ PolicyPush

\* The enforcement engine under policy pushes and event flushes
SpecEnforce == InitEnforce /\ [][NextEnforce]_vars

\* the events the step appended to the queue
Appended == SubSeq(event_queue', Len(event_queue) + 1, Len(event_queue'))

\* process snapshots with several instances of a restricted application, and
\* with a process whose name could not be read
QueueSnapshots ==
    {<<[pid |-> 100, name |-> chrome_exe]>>,
     <<[pid |-> 100, name |-> chrome_exe], [pid |-> 200, name |-> Chrome_EXE]>>,
     <<[pid |-> 200, name |-> Chrome_EXE], [pid |-> 400]>>,
     <<[pid |-> 300, name |-> chrome_exe], [pid |-> 400], [pid |-> 100, name |-> chrome_exe]>>}

QueueInstants == {0, RESTRICTED_APP_TIMEOUT}

\* what the POST of a batch can end with
Outcomes == {Response(201), Response(500), Exception}

\* run()'s loop, as far as the event queue goes: a tick that raises is caught
\* by the loop's except clause, which sleeps; the next wake starts with the
\* tick again and send_event_data has not run
QueueCheck ==
    /\ pc = "check_restricted_apps"
    /\ \E apps \in QueueSnapshots, now \in QueueInstants, kill_ok \in {{}, TrackedPids} :
           check_restricted_apps(apps, now, kill_ok)
    /\ queued' = queued \o Appended
    /\ Len(queued') <= MaxEvents
    /\ pc' = IF raised' THEN "check_restricted_apps" ELSE "send_event_data"
    /\ UNCHANGED <<posts, scheduler_vars>>

QueueSend ==
    /\ pc = "send_event_data"
    /\ \E outcome \in Outcomes : send_event_data(outcome)
    /\ posts' = IF last_post' = None THEN posts ELSE Append(posts, last_post'[1])
    /\ pc' = "check_restricted_apps"
    /\ UNCHANGED <<queued, scheduler_vars>>

\* an agent started with an organization id and a config file that holds the
\* restricted-app list ["Chrome"]
InitQueue ==
    /\ Constructor([org_id |-> Some(1), api_url |-> None, ws_url |-> None],
                   JsonFile(ConfigDict("persisted", Some(2), "file_api", "file_ws", FALSE,
                                       TRUE, 600, <<Chrome>>)))
    /\ Started("check_restricted_apps")

NextQueue == QueueCheck \/ QueueSend

\* The event queue between the enforcement ticks and the event flushes
SpecQueue == InitQueue /\ [][NextQueue]_vars

\* process snapshots with a process that matches two restricted names at
\* once, one that matches only "EXE", and one whose name could not be read
GraceSnapshots ==
    {<<>>,
     <<[pid |-> 100, name |-> chrome_exe]>>,
     <<[pid |-> 100, name |-> chrome_exe], [pid |-> 200, name |-> notepad_exe]>>,
     <<[pid |-> 200, name |-> notepad_exe], [pid |-> 400],
       [pid |-> 100, name |-> chrome_exe]>>}

\* the clock readings at which a timer starts, is warned and times out
GraceInstants == {0, WARN_THRESHOLD, RESTRICTED_APP_TIMEOUT}

\* an enforcement tick of run()'s loop; queued keeps every event the ticks
\* put, in the order of the puts. A tick that raises is caught by the loop's
\* except clause and the next wake starts with the tick again.
GraceCheck ==
    /\ pc = "check_restricted_apps"
    /\ \E apps \in GraceSnapshots, now \in GraceInstants, kill_ok \in {{}, TrackedPids} :
           check_restricted_apps(apps, now, kill_ok)
    /\ queued' = queued \o Appended
    /\ Len(queued') <= MaxEvents
    /\ pc' = IF raised' THEN "check_restricted_apps" ELSE "send_event_data"
    /\ UNCHANGED <<posts, scheduler_vars>>

GraceSend ==
    /\ pc = "send_event_data"
    /\ pc' = "check_restricted_apps"
    /\ send_event_data(Response(200))
    /\ UNCHANGED <<posts, queued, scheduler_vars>>

NextGrace == GraceCheck \/ GraceSend \/ PolicyPush

\* The grace period of the enforcement engine: detection, warning and
\* termination under policy pushes, with the history of the queued events
SpecGrace == InitEnforce /\ [][NextGrace]_vars

\* process snapshots of the wakes: a restricted application, alone and
\* behind a process whose name could not be read
WakeSnapshots ==
    {<<[pid |-> 100, name |-> chrome_exe]>>,
     <<[pid |-> 400], [pid |-> 100, name |-> chrome_exe]>>}

\* clock readings of the wakes, in seconds
WakeInstants == {0, HEARTBEAT_INTERVAL, SCREENSHOT_INTERVAL}

Wake == \E now \in WakeInstants : run_while(now)

WakeCheck ==
    \E apps \in WakeSnapshots, kill_ok \in {{}, TrackedPids} : run_check(apps, kill_ok)

WakeActivity == \E ok \in BOOLEAN : run_activity(ok)

WakeScreenshot == \E ok \in BOOLEAN : run_screenshot(ok)

WakeHeartbeat == \E ok \in BOOLEAN : run_heartbeat(ok)

WakeFlush == \E outcome \in {Response(200), Response(500)} : run_flush(outcome)

\* the steps of the scheduler's thread
Scheduler ==
    \/ Wake
    \/ WakeCheck
    \/ WakeActivity
    \/ WakeScreenshot
    \/ WakeHeartbeat
    \/ WakeFlush
    \/ run_sleep

\* the inbound messages of the channel's runs
ChannelMessages ==
    {[event |-> "restricted_apps_update", data |-> [restricted_apps |-> <<Chrome>>]],
     [event |-> "ping"]}

\* a message arrives on the open connection
ws_receive ==
    /\ ws_pc = "run_forever"
    /\ ws = "open"
    /\ \E data \in ChannelMessages, disk \in {"ok", "write_error"} :
           on_message(data, disk, Response(200), TRUE)

Connect == \E attempt \in {"open", "error", "raise"} : run_forever(attempt)

Disconnect == \E how \in {"error", "close"} : connection_lost(how)

\* the steps run_websocket's thread takes by itself
ChannelLoop == ws_while \/ connect_websocket \/ Connect \/ ws_sleep

\* the steps of the channel's thread, and what the network does to it
Channel == ChannelLoop \/ Disconnect \/ ws_receive

\* an agent that registered: started with an organization id, its config file
\* holds the restricted-app list ["Chrome"]
InitRun ==
    /\ Constructor([org_id |-> Some(1), api_url |-> None, ws_url |-> None],
                   JsonFile([restricted_apps |-> <<Chrome>>]))
    /\ Started("while")

NextRun == Scheduler \/ handle_signal

\* The reporting scheduler's loop
SpecRun == InitRun /\ [][NextRun]_vars

NextChannel == Channel \/ handle_signal

\* The control channel's loop; its thread keeps running
SpecChannel == InitRun /\ [][NextChannel]_vars /\ WF_vars(ChannelLoop)

NextAgent == Scheduler \/ Channel \/ handle_signal

\* The two loops side by side
SpecAgent == InitRun /\ [][NextAgent]_vars

\* a message arrives on the open connection
HandlerReceive ==
    /\ ws_pc = "run_forever"
    /\ ws = "open"
    /\ \E data \in HandlerMessages, disk \in {"ok", "write_error"},
          post \in {Response(200), Exception}, kill_ok \in BOOLEAN :
           on_message(data, disk, post, kill_ok)

\* an enforcement tick of the scheduler's thread that finds chrome.exe
HandlerTick ==
    /\ check_restricted_apps(<<[pid |-> 100, name |-> chrome_exe]>>, 0, {})
    /\ UNCHANGED <<pc, posts, queued, scheduler_vars>>

NextHandler ==
    \/ ws_while
    \/ connect_websocket
    \/ run_forever("open")
    \/ HandlerReceive
    \/ HandlerTick

\* The message handler on an open connection, next to enforcement ticks
SpecHandler == InitRun /\ [][NextHandler]_vars

\* main() built the agent and is about to call agent.run()
InitBoot ==
    /\ \E args \in CommandLines, file \in ConfigFiles : Constructor(args, file)
    /\ needs_init = TRUE
    /\ pc = "main"
    /\ ws_pc = "unstarted"

BootRegister ==
    \E outcome \in RegisterOutcomes, disk \in {"ok", "write_error"} :
        register_with_server(outcome, disk)

\* the steps of run()'s loop, with one snapshot and one clock reading
BootScheduler ==
    \/ run_while(0)
    \/ run_check(<<[pid |-> 100, name |-> chrome_exe]>>, {})
    \/ run_activity(TRUE)
    \/ run_screenshot(TRUE)
    \/ run_heartbeat(TRUE)
    \/ run_flush(Response(200))
    \/ run_sleep

\* the steps of the main thread: main(), run()'s bootstrap and run()'s loop
MainThread ==
    \/ main_run
    \/ BootRegister
    \/ run_retry
    \/ run_start_thread(0)
    \/ main_break
    \/ BootScheduler

\* the steps of run_websocket's thread and what the network does to it
BootChannel ==
    \/ ws_while
    \/ connect_websocket
    \/ run_forever("open")
    \/ run_forever("error")
    \/ connection_lost("close")
    \/ ws_sleep

NextBoot == MainThread \/ BootChannel \/ handle_signal

\* The agent from main() on
SpecBoot == InitBoot /\ [][NextBoot]_vars

\* an agent started with an organization id or without one
InitStop ==
    /\ \E args \in CommandLines, file \in ConfigFiles : Constructor(args, file)
    /\ needs_init = TRUE
    /\ pc = "main"
    /\ ws_pc = "unstarted"

StopRegister ==
    \E outcome \in {Exception, RegisterResponse(403, EmptyDict),
                    RegisterResponse(201, EmptyDict)} :
        register_with_server(outcome, "ok")

\* the steps of the main thread
StopThread ==
    \/ main_run
    \/ StopRegister
    \/ run_retry
    \/ run_start_thread(0)
    \/ main_break
    \/ BootScheduler

NextStop == StopThread \/ handle_signal

\* The main thread under a stop signal; the thread keeps running
SpecStop == InitStop /\ [][NextStop]_vars /\ WF_vars(StopThread)

\* process snapshots of the ticks that a policy push can fall into
RaceSnapshots ==
    {<<[pid |-> 100, name |-> chrome_exe], [pid |-> 200, name |-> notepad_exe]>>,
     <<[pid |-> 200, name |-> notepad_exe], [pid |-> 100, name |-> chrome_exe]>>,
     <<[pid |-> 100, name |-> chrome_exe], [pid |-> 400]>>}

\* a tick begins; the flush of the wake before it has emptied the queue
RaceBegin ==
    /\ event_queue = <<>>
    /\ \E apps \in RaceSnapshots, now \in {0, WARN_THRESHOLD} : tick_begin(apps, now)

\* send_event_data, between two ticks
RaceFlush ==
    /\ in_flight = None
    /\ event_queue # <<>>
    /\ send_event_data(Response(200))
    /\ UNCHANGED <<pc, posts, queued, scheduler_vars>>

RaceTimers == \E kill_ok \in {{}, TrackedPids} : tick_timers(kill_ok)

\* the control channel's thread handles a restricted_apps_update
RacePush ==
    \E l \in {<<>>, <<Chrome>>, <<EXE>>} :
        on_message([event |-> "restricted_apps_update",
                    data |-> [restricted_apps |-> l]], "ok", Response(200), TRUE)

NextRace == RaceBegin \/ tick_app \/ RaceTimers \/ RaceFlush \/ RacePush

\* Enforcement ticks, statement by statement, next to policy pushes
SpecRace == InitRun /\ [][NextRace]_vars

\* the messages that switch the two report features, and the request for a
\* screenshot
ToggleMessages ==
    ScreenshotRequests
    \cup {[event |-> "config_update", data |-> [screenshot_enabled |-> b]] : b \in BOOLEAN}
    \cup {[event |-> "config_update", data |-> [activity_tracking_enabled |-> b]] :
              b \in BOOLEAN}

ToggleReceive ==
    /\ ws_pc = "run_forever"
    /\ ws = "open"
    /\ \E data \in ToggleMessages : on_message(data, "ok", Response(200), TRUE)

\* the wakes of run()'s loop at the instants at which a heartbeat and a
\* screenshot are due
ToggleScheduler ==
    \/ \E now \in {0, SCREENSHOT_INTERVAL} : run_while(now)
    \/ run_check(<<[pid |-> 100, name |-> chrome_exe]>>, {})
    \/ run_activity(TRUE)
    \/ run_screenshot(TRUE)
    \/ run_heartbeat(TRUE)
    \/ run_flush(Response(200))
    \/ run_sleep

NextToggle ==
    \/ ToggleScheduler
    \/ ws_while
    \/ connect_websocket
    \/ run_forever("open")
    \/ ToggleReceive

\* The reporting scheduler next to a control channel that switches
\* screenshots and activity tracking off and on
SpecToggle == InitRun /\ [][NextToggle]_vars

\* the messages that write to the Config Store or read it
StoreMessages ==
    ScreenshotRequests
    \cup {[event |-> "restricted_apps_update", data |-> [restricted_apps |-> <<Chrome>>]],
          [event |-> "restricted_apps_update", data |-> [restricted_apps |-> <<EXE>>]],
          [event |-> "config_update", data |-> [screenshot_enabled |-> FALSE]],
          [event |-> "config_update",
           data |-> [screenshot_enabled |-> TRUE, idle_threshold |-> 600]]}

StoreRegister ==
    \E outcome \in RegisterOutcomes, disk \in DiskOutcomes :
        register_with_server(outcome, disk)

StoreReceive ==
    /\ ws_pc = "run_forever"
    /\ ws = "open"
    /\ \E data \in StoreMessages, disk \in DiskOutcomes :
           on_message(data, disk, Response(200), TRUE)

\* an enforcement tick of run()'s loop that finds chrome.exe
StoreTick ==
    /\ pc = "while"
    /\ check_restricted_apps(<<[pid |-> 100, name |-> chrome_exe]>>, 0, {})
    /\ UNCHANGED <<pc, posts, queued, scheduler_vars>>

NextStore ==
    \/ main_run
    \/ StoreRegister
    \/ run_retry
    \/ main_break
    \/ run_start_thread(0)
    \/ ws_while
    \/ connect_websocket
    \/ run_forever("open")
    \/ StoreReceive
    \/ StoreTick

\* The Config Store from main() on: the registration, then the messages of
\* the control channel next to enforcement ticks
SpecStore == InitBoot /\ [][NextStore]_vars

Init ==
    /\ \E args \in CommandLines, file \in ConfigFiles : Constructor(args, file)
    /\ Started("while")

Receive ==
    /\ CanConnect
    /\ \E data \in RestrictedAppsUpdates \cup ConfigUpdates \cup OtherMessages,
          disk \in DiskOutcomes :
           on_message(data, disk, Response(200), TRUE)

Next == Receive

\* The control channel's message handler over the Config Store
Spec == Init /\ [][Next]_vars

----------------------------------------------------------------------------
(* Properties of the enforcement engine (checked under SpecEnforce) *)

\* the (pid, lowercased name) pairs of apps whose lowercased name contains a
\* lowercased restricted name of policy
Matched(apps, policy) ==
    {Key(apps[j].pid, Lower(apps[j].name)) :
        j \in {n \in DOMAIN apps :
                  \E i \in DOMAIN policy :
                      Contains(Lower(policy[i]), Lower(apps[n].name))}}

\* the state is the one an enforcement tick left
AfterTick == last_call = "check_restricted_apps"

\* the step is an enforcement tick
TickStep == pc = "check_restricted_apps" /\ pc' = "send_event_data"

\* how many restricted_app_terminated events for pid and name are in events
TerminatedCount(events, pid, name) ==
    Cardinality({i \in DOMAIN events :
                    /\ events[i].event = "restricted_app_terminated"
                    /\ events[i].pid = pid
                    /\ events[i].app_name = name})

\* seconds since the timer was started, at the most recent tick
Elapsed(timer_info) == current_time - timer_info.start_time

\* C1: after every enforcement tick, for any policy including the empty one,
\* every timer key is a (pid, lowercased name) pair of a process of that
\* tick's snapshot that matches the policy in force at that tick.
C1_KeysSubsetOfMatched ==
    AfterTick =>
        TimerKeys(restricted_app_timers) \subseteq Matched(running_apps, restricted_apps)

\* C2: a tick that runs while the restricted-app list is empty leaves the
\* timer map empty.
C2_EmptyPolicyDropsTimers ==
    [][(TickStep /\ restricted_apps = <<>>) => restricted_app_timers' = <<>>]_vars

\* C3: the start timestamp of a timer never changes while the timer exists
\* (a re-detection of its key does not reset it), and its elapsed time never
\* decreases.
C3_StartNeverChanges ==
    [][\A i \in DOMAIN restricted_app_timers, j \in DOMAIN restricted_app_timers' :
           restricted_app_timers[i].key = restricted_app_timers'[j].key =>
               /\ restricted_app_timers'[j].start_time
                      = restricted_app_timers[i].start_time
               /\ current_time' - restricted_app_timers'[j].start_time
                      >= current_time - restricted_app_timers[i].start_time]_vars

\* a timer that was re-detected by a later tick than the one that created it
C3_Witness ==
    /\ AfterTick
    /\ \E i \in DOMAIN restricted_app_timers :
           /\ restricted_app_timers[i].key \in Matched(running_apps, restricted_apps)
           /\ Elapsed(restricted_app_timers[i]) > 0

C6_TerminationOutcome ==
    [][TickStep =>
           /\ \A n \in DOMAIN terminate_calls' :
                  LET c == terminate_calls'[n]
                      key == Key(c.pid, c.name)
                  IN  /\ IsTracked(restricted_app_timers, key)
                      /\ IF c.ok
                         THEN /\ ~IsTracked(restricted_app_timers', key)
                              /\ TerminatedCount(Appended, c.pid, c.name) = 1
                         ELSE /\ IsTracked(restricted_app_timers', key)
                              /\ TimerOf(restricted_app_timers', key).start_time
                                     = TimerOf(restricted_app_timers, key).start_time
                              /\ TimerOf(restricted_app_timers', key).warned
                                     = (\/ TimerOf(restricted_app_timers, key).warned
                                        \/ \E m \in DOMAIN warnings' : warnings'[m] = key)
                              /\ TerminatedCount(Appended, c.pid, c.name) = 0
           /\ Len(terminate_calls')
                  = Cardinality(
                        {i \in DOMAIN restricted_app_timers :
                            /\ restricted_app_timers[i].key
                                   \in Matched(running_apps', restricted_apps)
                            /\ current_time' - restricted_app_timers[i].start_time
                                   >= RESTRICTED_APP_TIMEOUT})]_vars

\* a tick whose first termination failed and whose second one succeeded
C6_Witness ==
    /\ AfterTick
    /\ Len(terminate_calls) = 2
    /\ ~terminate_calls[1].ok
    /\ terminate_calls[2].ok
    /\ IsTracked(restricted_app_timers,
                 Key(terminate_calls[1].pid, terminate_calls[1].name))
    /\ ~IsTracked(restricted_app_timers,
                  Key(terminate_calls[2].pid, terminate_calls[2].name))

\* C7: in the state a tick left, with every timer of that tick below the warn
\* threshold (so the tick terminated nothing), a second tick with the same snapshot, policy and clock reading leaves the
\* timer map as it is (no second timer for a tracked key) and queues no event.
C7_ReconcileIdempotent ==
    (/\ AfterTick
     /\ terminate_calls = <<>>
     /\ \A i \in DOMAIN restricted_app_timers :
            Elapsed(restricted_app_timers[i]) < WARN_THRESHOLD)
        => \A kill_ok \in SUBSET TrackedPids :
               LET again == TickResult(restricted_app_timers, restricted_apps,
                                       running_apps, current_time, kill_ok)
               IN  /\ again.timers = restricted_app_timers
                   /\ again.events = <<>>

\* a tick that created a timer, below the warn threshold
C7_Witness ==
    /\ AfterTick
    /\ restricted_app_timers # <<>>
    /\ \A i \in DOMAIN restricted_app_timers :
           /\ Elapsed(restricted_app_timers[i]) < WARN_THRESHOLD
           /\ restricted_app_timers[i].key \in Matched(running_apps, restricted_apps)
    /\ \E n \in DOMAIN event_queue : event_queue[n].event = "restricted_app_detected"

\* The scenario's process, timer and events
ScenarioApps == <<[pid |-> 100, name |-> chrome_exe]>>

ScenarioTimer(warned) ==
    <<[key |-> <<100, chrome_exe>>, start_time |-> 0, pid |-> 100, name |-> chrome_exe,
       warned |-> warned]>>

ScenarioEvent(event) == [event |-> event, app_name |-> chrome_exe, pid |-> 100]

\* the step is a tick under policy ["Chrome"] from the timer map timers, with
\* the snapshot apps at time now
ScenarioTick(timers, apps, now) ==
    /\ TickStep
    /\ restricted_apps = <<Chrome>>
    /\ restricted_app_timers = timers
    /\ running_apps' = apps
    /\ current_time' = now

\* C8: under policy ["Chrome"] with pid 100 "chrome.exe": the tick at t=0
\* creates one timer and queues restricted_app_detected; the tick at t=65
\* sets warned and terminates nothing; the tick at t=121 whose termination
\* succeeds queues restricted_app_terminated and removes the timer; the tick
\* at t=122 without the process leaves no timer and queues nothing.
C8_Scenario ==
    [][/\ ScenarioTick(<<>>, ScenarioApps, 0) =>
              /\ restricted_app_timers' = ScenarioTimer(FALSE)
              /\ Appended = <<ScenarioEvent("restricted_app_detected")>>
              /\ terminate_calls' = <<>>
              /\ warnings' = <<>>
       /\ ScenarioTick(ScenarioTimer(FALSE), ScenarioApps, 65) =>
              /\ restricted_app_timers' = ScenarioTimer(TRUE)
              /\ Appended = <<>>
              /\ terminate_calls' = <<>>
              /\ warnings' = <<(<<100, chrome_exe>>)>>
       /\ (/\ ScenarioTick(ScenarioTimer(TRUE), ScenarioApps, 121)
           /\ \A n \in DOMAIN terminate_calls' : terminate_calls'[n].ok) =>
              /\ terminate_calls' = <<[pid |-> 100, name |-> chrome_exe, ok |-> TRUE, warned |-> TRUE]>>
              /\ restricted_app_timers' = <<>>
              /\ Appended = <<ScenarioEvent("restricted_app_terminated")>>
              /\ warnings' = <<>>
       /\ ScenarioTick(<<>>, <<>>, 122) =>
              /\ restricted_app_timers' = <<>>
              /\ Appended = <<>>
              /\ terminate_calls' = <<>>
              /\ warnings' = <<>>]_vars

\* the scenario's state after the tick at t=121: the timer that was created
\* at t=0 and warned by an earlier tick is gone, its process terminated
C8_Witness ==
    /\ AfterTick
    /\ restricted_apps = <<Chrome>>
    /\ running_apps = ScenarioApps
    /\ current_time = 121
    /\ terminate_calls = <<[pid |-> 100, name |-> chrome_exe, ok |-> TRUE, warned |-> TRUE]>>
    /\ warnings = <<>>
    /\ restricted_app_timers = <<>>
    /\ event_queue = <<ScenarioEvent("restricted_app_terminated")>>

----------------------------------------------------------------------------
(* Properties of the event queue (checked under SpecQueue) *)

\* the step is a call of send_event_data
FlushStep == pc = "send_event_data" /\ pc' = "check_restricted_apps"

RECURSIVE Batches(_, _)
\* the events of the POSTs list[i..], one batch after the other
Batches(list, i) ==
    IF i > Len(list) THEN <<>> ELSE list[i].events \o Batches(list, i + 1)

\* the events put on the queue that no POST before the step carried
NotYetPosted == SubSeq(queued, Len(Batches(posts, 1)) + 1, Len(queued))

\* how often event e occurs in the sequence events
Occurrences(events, e) == Cardinality({i \in DOMAIN events : events[i] = e})

\* the two sequences hold the same events, each as often
SameEvents(one, other) ==
    \A e \in {one[i] : i \in DOMAIN one} \cup {other[i] : i \in DOMAIN other} :
        Occurrences(one, e) = Occurrences(other, e)

\* C11: a flush of a non-empty queue makes exactly one POST, whose batch holds
\* exactly the events that were in the queue when it started (a flush of an
\* empty queue makes none); an event put after a flush started is in no batch
\* until the next flush, whose batch holds it: every batch holds exactly the
\* events put since the flush before it started.
C11_FlushDrainsQueue ==
    [][FlushStep =>
           IF event_queue = <<>>
           THEN posts' = posts /\ last_post' = None
           ELSE /\ Len(posts') = Len(posts) + 1
                /\ SameEvents(posts'[Len(posts')].events, event_queue)
                /\ SameEvents(posts'[Len(posts')].events, NotYetPosted)
                /\ \A i \in DOMAIN posts : posts'[i] = posts[i]]_vars

\* two flushes were made, and the second carried what a tick put after the
\* first
C11_Witness ==
    /\ Len(posts) = 2
    /\ Len(posts[1].events) = 2
    /\ queued = posts[1].events \o posts[2].events
    /\ pc = "check_restricted_apps"

\* C12: when the POST of a batch ends with a status other than 200 or 201, or
\* with an exception, the flush leaves the queue empty (the batch is not put
\* back), no exception leaves send_event_data, and the next flush carries only
\* the events put after the failed one.
C12_FailedBatchDropped ==
    [][FlushStep =>
           /\ (last_post' # None /\ ~Accepted(last_post'[1].outcome)) =>
                  /\ event_queue' = <<>>
                  /\ ~raised'
                  /\ pc' = "check_restricted_apps"
           /\ (/\ posts # <<>>
               /\ ~Accepted(posts[Len(posts)].outcome)
               /\ last_post' # None) =>
                  /\ last_post'[1].events = NotYetPosted
                  /\ Len(Batches(posts', 1)) = Len(queued)]_vars

\* a batch was answered with HTTP 500; the flush after it carried one event,
\* put after the failure
C12_Witness ==
    /\ Len(posts) = 2
    /\ posts[1].outcome = Response(500)
    /\ Len(posts[2].events) = 1
    /\ queued = posts[1].events \o posts[2].events
    /\ event_queue = <<>>

\* C13: whatever the ticks, the flushes and their outcomes, the POSTs made so
\* far carry no event more often than it was put on the queue: a queued event
\* is in at most one batch.
C13_AtMostOnce ==
    \A e \in {queued[i] : i \in DOMAIN queued} :
        Occurrences(Batches(posts, 1), e) <= Occurrences(queued, e)

\* a batch ended with an exception, another with HTTP 500, and an event is
\* still queued
C13_Witness ==
    /\ Len(posts) = 2
    /\ posts[1].outcome = Exception
    /\ posts[2].outcome = Response(500)
    /\ Len(event_queue) = 1
    /\ Len(queued) = 3

\* C14: the queue never holds more events than a fixed capacity.
C14_QueueBounded == Len(event_queue) <= QueueCapacity

\* C15: the batches posted so far, one after the other, followed by the
\* queue, are the events in the order in which they were put: no batch
\* reorders events and none is dropped as a duplicate.
C15_BatchesInQueueOrder == Batches(posts, 1) \o event_queue = queued

\* a batch of two different events, and the same detection put a second time
\* after the process was terminated and came back
C15_Witness ==
    /\ posts # <<>>
    /\ Len(posts[1].events) = 2
    /\ posts[1].events[1] # posts[1].events[2]
    /\ \E i, j \in DOMAIN queued : i < j /\ queued[i] = queued[j]

----------------------------------------------------------------------------
(* Properties of the two loops (checked under SpecRun, SpecAgent and       *)
(* SpecChannel)                                                            *)

\* the current wake called name
Fired(name) == \E i \in DOMAIN fired : fired[i].call = name

\* the wake of run()'s loop is over: the loop is about to sleep
WakeOver == pc \in {"sleep", "except"}

\* C16: when a wake is over, every action that was due in it has run, also
\* when an action of the wake failed: the enforcement tick, the activity
\* report and the event flush in every wake, the screenshot and the heartbeat
\* when their interval had passed (a fired one is no longer due).
C16_EveryDueActionRuns ==
    WakeOver =>
        /\ Fired("check_restricted_apps")
        /\ Fired("track_activity")
        /\ Fired("send_event_data")
        /\ loop_time - last_screenshot_time < SCREENSHOT_INTERVAL
        /\ loop_time - last_heartbeat_time < HEARTBEAT_INTERVAL

\* C17: while self.running is true neither run()'s loop nor run_websocket's
\* loop has exited, whatever was raised by a call of the scheduler, a message
\* handler, a connection attempt or the loss of a connection.
C17_LoopsOutliveErrors ==
    running => pc # "exited" /\ ws_pc # "exited"

\* both loops are at the top of an iteration after an enforcement tick raised,
\* a config write of the message handler failed and a connection was lost
C17_Witness ==
    /\ running
    /\ pc = "while"
    /\ fired = <<Call("check_restricted_apps", FALSE)>>
    /\ ws_pc = "while"
    /\ ws = "closed"
    /\ ws_delay = RECONNECT_DELAY
    /\ save_result = "write_error"

\* (the claim as given) C18: in a wake that ran without error the enforcement
\* tick is the last call before the sleep, after the report actions.
C18_ReportsThenReconcile ==
    pc = "sleep" =>
        \A i \in DOMAIN fired :
            fired[i].call = "check_restricted_apps" => i = Len(fired)

\* the place of a call in the fixed order of a wake
Rank(name) ==
    CASE name = "check_restricted_apps" -> 1
      [] name = "track_activity" -> 2
      [] name = "send_activity_data" -> 3
      [] name = "take_screenshot" -> 4
      [] name = "send_screenshot" -> 5
      [] name = "send_heartbeat" -> 6
      [] name = "send_event_data" -> 7

\* C18 (amended): in every wake the enforcement tick is called first; the
\* report actions that run in the wake run after it, in the order activity
\* report, screenshot, heartbeat, event flush; the sleep comes after the last
\* of them.
C18_ReconcileThenReports ==
    /\ fired # <<>> => fired[1].call = "check_restricted_apps"
    /\ \A i, j \in DOMAIN fired : i < j => Rank(fired[i].call) < Rank(fired[j].call)
    /\ pc = "sleep" => fired[Len(fired)].call = "send_event_data"
    /\ pc \notin {"while", "sleep", "except", "exited"} =>
           \A i \in DOMAIN fired : Rank(fired[i].call) < Rank(pc)

\* a wake in which the tick, the activity report, the screenshot, the
\* heartbeat and the flush all ran, and which is about to sleep
C18_Witness ==
    /\ pc = "sleep"
    /\ Len(fired) = 7
    /\ loop_time = SCREENSHOT_INTERVAL

\* C19: a connection that errored or closed leaves self.connected false;
\* run_websocket sleeps 5 s before it connects again; and while the agent is
\* running, a new WebSocketApp is built and run after every such loss.
C19_ReconnectAfterLoss ==
    /\ [](ws = "closed" => ~connected)
    /\ []((ws_pc = "connect_websocket" /\ ws = "closed") => ws_delay = RECONNECT_DELAY)
    /\ ((ws = "closed" /\ running)
            ~> ((ws = "created" /\ ws_pc = "run_forever") \/ ~running))

\* a connection was open and handled a message, was lost, and after the 5 s
\* sleep a new WebSocketApp is about to run
C19_Witness ==
    /\ running
    /\ last_call = "on_message"
    /\ ws = "created"
    /\ ws_pc = "run_forever"
    /\ ws_delay = RECONNECT_DELAY
    /\ ~connected

\* C20: while a connection is open (from on_open to the next on_error or
\* on_close) self.connected is true and exactly one message was sent on it:
\* agent_connected with the device id, the user name, the host name and the
\* operating system's type, release and version.
C20_AgentConnectedOnOpen ==
    ws = "open" =>
        /\ connected
        /\ Len(ws_sent) = 1
        /\ ws_sent[1].event = "agent_connected"
        /\ ws_sent[1].userId = device_id
        /\ ws_sent[1].data.device_id = device_id
        /\ ws_sent[1].data.username = Platform.username
        /\ ws_sent[1].data.hostname = Platform.hostname
        /\ ws_sent[1].data.os_type = Platform.os_type
        /\ ws_sent[1].data.os_version
               = <<Platform.os_release, " (", Platform.os_version, ")">>

\* a connection opened again after one was lost and the loop slept
C20_Witness ==
    /\ ws = "open"
    /\ connected
    /\ ws_delay = RECONNECT_DELAY
    /\ ws_sent = <<AgentConnected>>

----------------------------------------------------------------------------
(* Properties of the control channel's message handler (checked under Spec) *)

\* the state is the one on_message left after a message tagged event
Handled(event) == last_call = "on_message" /\ Get(message, "event", "None") = event

\* C9: after a restricted_apps_update that carries a list, the restricted-app
\* list is exactly that list (nothing of the previous list is kept), and
\* save_config has run with it: the config file holds it when the write
\* succeeded.
C9_PolicyReplacedWholesale ==
    (/\ Handled("restricted_apps_update")
     /\ Has(message, "data")
     /\ Has(message.data, "restricted_apps"))
        => /\ restricted_apps = message.data.restricted_apps
           /\ save_result # "none"
           /\ save_result = "ok" =>
                  /\ config_file.state = "json"
                  /\ config_file.content.restricted_apps = message.data.restricted_apps

\* an update to ["Chrome"] handled while ["Chrome", "EXE"] was in force (the
\* file, whose write failed, still holds the previous list)
C9_Witness ==
    /\ Handled("restricted_apps_update")
    /\ Has(message, "data")
    /\ message.data = [restricted_apps |-> <<Chrome>>]
    /\ restricted_apps = <<Chrome>>
    /\ save_result = "open_error"
    /\ config_file.state = "json"
    /\ Get(config_file.content, "restricted_apps", <<>>) = <<Chrome, EXE>>

\* C10: a config_update sets those of screenshot_enabled,
\* activity_tracking_enabled and idle_threshold that its data carries and
\* leaves the others, the restricted-app list, the device id, the
\* organization id and the endpoints as they were.
C10_ConfigUpdatePartial ==
    [][(last_call' = "on_message" /\ Get(message', "event", "None") = "config_update") =>
           LET config_data == Get(message', "data", EmptyDict)
           IN  /\ screenshot_enabled' =
                      IF Has(config_data, "screenshot_enabled")
                      THEN config_data.screenshot_enabled ELSE screenshot_enabled
               /\ activity_tracking_enabled' =
                      IF Has(config_data, "activity_tracking_enabled")
                      THEN config_data.activity_tracking_enabled
                      ELSE activity_tracking_enabled
               /\ idle_threshold' =
                      IF Has(config_data, "idle_threshold")
                      THEN config_data.idle_threshold ELSE idle_threshold
               /\ restricted_apps' = restricted_apps
               /\ device_id' = device_id
               /\ organization_id' = organization_id
               /\ api_endpoint' = api_endpoint
               /\ ws_endpoint' = ws_endpoint]_vars

\* {"idle_threshold": 600} handled while screenshots were disabled and a
\* restricted-app list was in force
C10_Witness ==
    /\ Handled("config_update")
    /\ Has(message, "data")
    /\ message.data = [idle_threshold |-> 600]
    /\ idle_threshold = 600
    /\ screenshot_enabled = FALSE
    /\ restricted_apps = <<Chrome, EXE>>

----------------------------------------------------------------------------
(* Properties of the message handler's other branches (checked under       *)
(* SpecHandler)                                                            *)

\* the tag of message m, "None" when it has none
EventOf(m) == IF IsDict(m) THEN Get(m, "event", "None") ELSE "None"

\* C21: a message whose event tag is none of restricted_apps_update,
\* config_update, take_screenshot_now and terminate_application is ignored:
\* its handling changes no field of the Config Store, no timer, nothing on
\* the queue and nothing in the config file, calls neither the capture nor
\* the termination, and leaves the connection as it is.
C21_UnknownTagIgnored ==
    [][(/\ last_call' = "on_message"
        /\ IsDict(message')
        /\ EventOf(message') \notin {"restricted_apps_update", "config_update",
                                     "take_screenshot_now", "terminate_application"})
           => /\ UNCHANGED <<restricted_apps, settings_vars, identity_vars,
                             restricted_app_timers, event_queue, config_file,
                             connected, ws>>
              /\ save_result' = "none"
              /\ handler_calls' = <<>>]_vars

\* a "ping" that carries a list, a setting, a pid and a name was handled on
\* the open connection while a policy and a timer were in force
C21_Witness ==
    /\ last_call = "on_message"
    /\ EventOf(message) = "ping"
    /\ Has(message, "data")
    /\ connected
    /\ ws = "open"
    /\ restricted_apps = <<Chrome>>
    /\ screenshot_enabled
    /\ restricted_app_timers # <<>>
    /\ handler_calls = <<>>
    /\ save_result = "none"

\* the message is malformed: no JSON object, or a known tag whose data is
\* missing or of the wrong shape
Malformed(m) ==
    \/ ~IsDict(m)
    \/ /\ EventOf(m) = "restricted_apps_update"
       /\ \/ ~Has(m, "data")
          \/ ~IsDict(m.data)
          \/ ~Has(m.data, "restricted_apps")
    \/ /\ EventOf(m) = "config_update"
       /\ (~Has(m, "data") \/ ~IsDict(m.data))
    \/ /\ EventOf(m) = "terminate_application"
       /\ \/ ~Has(m, "data")
          \/ ~IsDict(m.data)
          \/ ~Has(m.data, "pid")
          \/ ~Has(m.data, "name")

\* C22: a malformed message is ignored: the restricted-app list, the
\* settings and the identity keep their values, save_config does not run and
\* the config file is untouched, and the connection stays as it is.
C22_MalformedIgnored ==
    [][(last_call' = "on_message" /\ Malformed(message'))
           => /\ UNCHANGED <<restricted_apps, settings_vars, identity_vars,
                             config_file, connected, ws>>
              /\ save_result' = "none"]_vars

\* the message asks for the termination of a pid and a name
TerminateAsked(m) ==
    /\ EventOf(m) = "terminate_application"
    /\ Has(m, "data")
    /\ IsDict(m.data)
    /\ Has(m.data, "pid")
    /\ Has(m.data, "name")

\* C23: handling a terminate_application that names a pid and a name calls
\* terminate_process once, for that pid and name, whether the enforcement
\* engine holds a timer for the pid or not, and leaves the timer map, the
\* event queue and the Config Store (in memory and on disk) as they were.
C23_TerminateDirectly ==
    [][(last_call' = "on_message" /\ TerminateAsked(message'))
           => /\ Len(handler_calls') = 1
              /\ handler_calls'[1].call = "terminate_process"
              /\ handler_calls'[1].pid = message'.data.pid
              /\ handler_calls'[1].name = message'.data.name
              /\ UNCHANGED <<restricted_app_timers, event_queue, restricted_apps,
                             settings_vars, identity_vars, config_file>>
              /\ save_result' = "none"]_vars

\* pid 200 was terminated on request while the only timer is the one of pid
\* 100, which stays
C23_Witness ==
    /\ last_call = "on_message"
    /\ TerminateAsked(message)
    /\ message.data.pid = 200
    /\ handler_calls = <<TerminateCall(200, chrome_exe, TRUE)>>
    /\ Len(restricted_app_timers) = 1
    /\ restricted_app_timers[1].pid = 100
    /\ event_queue # <<>>

\* C24: handling take_screenshot_now calls the capture at once, however long
\* ago the periodic screenshot was taken, and sends the screenshot the
\* capture returns (it returns none while screenshots are disabled); run()'s
\* last_screenshot_time stays as it was.
C24_ScreenshotNow ==
    [][(last_call' = "on_message" /\ EventOf(message') = "take_screenshot_now")
           => /\ Len(handler_calls') >= 1
              /\ handler_calls'[1].call = "take_screenshot"
              /\ screenshot_enabled =>
                     /\ handler_calls'[1].ok
                     /\ Len(handler_calls') = 2
                     /\ handler_calls'[2].call = "send_screenshot"
              /\ last_screenshot_time' = last_screenshot_time]_vars

\* a screenshot was captured and sent on request although the interval of
\* the periodic screenshot had not passed
C24_Witness ==
    /\ last_call = "on_message"
    /\ EventOf(message) = "take_screenshot_now"
    /\ loop_time - last_screenshot_time < SCREENSHOT_INTERVAL
    /\ handler_calls = <<Call("take_screenshot", TRUE), Call("send_screenshot", TRUE)>>

----------------------------------------------------------------------------
(* Properties of the bootstrap and of the stop (checked under SpecBoot,    *)
(* SpecStop and SpecChannel)                                               *)

\* run()'s loop or the thread of run_websocket has started, or one of them
\* has left a trace
AtWork ==
    \/ pc \in {"while", "check_restricted_apps", "track_activity", "take_screenshot",
               "send_heartbeat", "send_event_data", "sleep", "except", "exited"}
    \/ ws_pc # "unstarted"
    \/ ws # "None"
    \/ fired # <<>>
    \/ last_post # None
    \/ restricted_app_timers # <<>>

\* the server accepted the most recent POST to /agent-register
ExchangeSucceeded ==
    /\ registration # None
    /\ ~registration[1].outcome.exception
    /\ registration[1].outcome.status_code \in {200, 201}

\* the settings of the body the server answered with
SettingsOf(outcome) ==
    IF IsDict(outcome.body) THEN Get(outcome.body, "settings", EmptyDict) ELSE EmptyDict

\* the step is the one in which the agent registers
RegistersNow == needs_init /\ ~needs_init'

\* the settings of the response are in force and save_config ran with them:
\* the file holds them when the write succeeded
AppliedAndPersisted ==
    LET settings == SettingsOf(registration'[1].outcome)
    IN  /\ Has(settings, "screenshot_enabled") =>
               screenshot_enabled' = settings.screenshot_enabled
        /\ Has(settings, "activity_tracking_enabled") =>
               activity_tracking_enabled' = settings.activity_tracking_enabled
        /\ Has(settings, "idle_threshold") => idle_threshold' = settings.idle_threshold
        /\ Has(settings, "restricted_apps") => restricted_apps' = settings.restricted_apps
        /\ save_result' # "none"
        /\ save_result' = "ok" =>
               /\ config_file'.state = "json"
               /\ config_file'.content.restricted_apps = restricted_apps'
               /\ config_file'.content.screenshot_enabled = screenshot_enabled'
               /\ config_file'.content.activity_tracking_enabled =
                      activity_tracking_enabled'
               /\ config_file'.content.idle_threshold = idle_threshold'

\* C25: the agent is at work (a tick, a report, a step of the control
\* channel's thread) only after the server accepted a registration; in the
\* step that registers, the settings of the response are applied and
\* save_config runs with them while neither the loop nor the channel's thread
\* has started; a registration that failed leaves the agent unregistered,
\* run() sleeps REGISTER_RETRY_DELAY seconds and returns, and main(), not
\* stopped, calls run() again, which registers again.
C25_RegisterBeforeWork ==
    /\ [](AtWork => (~needs_init /\ ExchangeSucceeded))
    /\ [][/\ RegistersNow =>
                 /\ ExchangeSucceeded'
                 /\ AppliedAndPersisted
                 /\ pc' = "start_thread"
                 /\ ws_pc' = "unstarted"
          /\ (pc = "register_with_server" /\ pc' # pc /\ needs_init') => pc' = "retry"
          /\ (pc = "retry" /\ pc' # pc) =>
                 /\ retry_delay' = REGISTER_RETRY_DELAY
                 /\ needs_init'
                 /\ pc' = "break"
          /\ (pc = "break" /\ pc' # pc /\ running) => pc' = "main"
          /\ (pc = "main" /\ pc' # pc /\ needs_init) =>
                 pc' = "register_with_server"]_vars

\* both loops run with the restricted-app list the server sent at the
\* registration, which followed a failed attempt
C25_Witness ==
    /\ pc = "check_restricted_apps"
    /\ ws_pc = "run_forever"
    /\ ~needs_init
    /\ retry_delay = 0
    /\ registration # None
    /\ SettingsOf(registration[1].outcome) =
           [restricted_apps |-> <<Chrome>>, screenshot_enabled |-> FALSE]
    /\ restricted_apps = <<Chrome>>
    /\ ~screenshot_enabled
    /\ save_result = "ok"
    /\ config_file.state = "json"
    /\ config_file.content.restricted_apps = <<Chrome>>

\* C26: when the registration fails for good (no organization id, so that
\* no request can be made, or a refusal by the server), the agent aborts:
\* main() ends with sys.exit(1) and the bootstrap is not tried again.
C26_FatalStartupAborts ==
    [][(/\ pc = "register_with_server"
        /\ pc' # pc
        /\ \/ ~TruthyInt(organization_id)
           \/ /\ registration' # None
              /\ ~registration'[1].outcome.exception
              /\ registration'[1].outcome.status_code = 403)
           => pc' = "sys.exit(1)"]_vars

\* C27: whenever the config file is intact and holds a device_id, the
\* device id the agent runs with (registers with, reports with, connects
\* with, persists) is the one of the file.
C27_DeviceIdStable ==
    (config_file.state = "json" /\ Has(config_file.content, "device_id"))
        => device_id = config_file.content.device_id

\* C28: once the running flag is false, run_websocket's loop ends and the
\* connection is not left open.
C28_StopEndsChannel == (~running) ~> (ws_pc = "exited" /\ ws # "open")

\* C29: once the running flag is false, run()'s loop starts no further
\* iteration, and main() comes to its end, whether the agent has registered
\* or not.
C29_StopEndsMain ==
    /\ [][~running => ~(pc = "while" /\ pc' = "check_restricted_apps")]_vars
    /\ (~running) ~> (pc = "done")

\* main() has ended after a stop that came while the agent, never
\* registered, was between two attempts
C29_Witness ==
    /\ pc = "done"
    /\ ~running
    /\ needs_init
    /\ retry_delay = REGISTER_RETRY_DELAY
    /\ registration # None

----------------------------------------------------------------------------
(* Properties of a tick under a concurrent policy push (checked under      *)
(* SpecRace)                                                               *)

\* C30: the processes of the snapshot of one tick are all matched against
\* the same restricted-app list, also when the control channel replaces the
\* list while the tick is in flight.
C30_OnePolicyPerTick ==
    in_flight # None =>
        \A i, j \in DOMAIN in_flight[1].policies :
            in_flight[1].policies[i] = in_flight[1].policies[j]

----------------------------------------------------------------------------
(* Properties of the Config Store (checked under SpecStore) *)

\* the fields of the Config Store that the registration and the control
\* channel write
StoreFields == <<restricted_apps, screenshot_enabled, activity_tracking_enabled,
                 idle_threshold>>

\* the config file is intact and each of its fields is the in-memory value
FileIsMemory ==
    /\ config_file.state = "json"
    /\ config_file.content =
           [device_id |-> device_id, organization_id |-> organization_id,
            api_endpoint |-> api_endpoint, ws_endpoint |-> ws_endpoint,
            screenshot_enabled |-> screenshot_enabled,
            activity_tracking_enabled |-> activity_tracking_enabled,
            idle_threshold |-> idle_threshold, restricted_apps |-> restricted_apps]

\* C31: every step that changes a field of the Config Store (the
\* registration, a restricted_apps_update, a config_update) runs save_config,
\* and whenever the most recent config write succeeded the fields of the
\* config file equal the in-memory values.
C31_PersistedOnMutation ==
    /\ [](save_result = "ok" => FileIsMemory)
    /\ [][StoreFields' # StoreFields => save_result' # "none"]_vars

\* {"screenshot_enabled": true, "idle_threshold": 600} was handled and written
\* after the registration had set the restricted-app list and disabled the
\* screenshots
C31_Witness ==
    /\ last_call = "on_message"
    /\ Get(message, "event", "None") = "config_update"
    /\ save_result = "ok"
    /\ registration # None
    /\ Has(registration[1].outcome, "body")
    /\ registration[1].outcome.body =
           [settings |-> [restricted_apps |-> <<Chrome>>, screenshot_enabled |-> FALSE]]
    /\ restricted_apps = <<Chrome>>
    /\ screenshot_enabled
    /\ idle_threshold = 600
    /\ FileIsMemory

\* the in-memory values are the ones message m asked for
MemoryHolds(m) ==
    LET d == Get(m, "data", EmptyDict)
    IN  /\ Get(m, "event", "None") = "restricted_apps_update" =>
               restricted_apps = Get(d, "restricted_apps", <<>>)
        /\ Get(m, "event", "None") = "config_update" =>
               /\ Has(d, "screenshot_enabled") => screenshot_enabled = d.screenshot_enabled
               /\ Has(d, "idle_threshold") => idle_threshold = d.idle_threshold

\* C32: when the config write of a restricted_apps_update, a config_update or
\* a registration fails, the in-memory values are the updated ones, no error
\* leaves the handler or the registration (the agent has registered and goes
\* on to start its loops, the connection stays open), and what runs next
\* uses the in-memory values: a tick under a non-empty list keeps timers only
\* for processes that list matches, and a screenshot request captures exactly
\* when the in-memory toggle allows it.
C32_WriteFailureOnlyLogged ==
    /\ save_result \in {"open_error", "write_error"} =>
           /\ ~raised
           /\ ~handler_raised
           /\ last_call = "on_message" =>
                  /\ MemoryHolds(message)
                  /\ connected
                  /\ ws = "open"
           /\ last_call = "register_with_server" =>
                  /\ ~needs_init
                  /\ pc \in {"start_thread", "while"}
                  /\ LET settings == Get(registration[1].outcome.body, "settings",
                                         EmptyDict)
                     IN  /\ Has(settings, "restricted_apps") =>
                                 restricted_apps = settings.restricted_apps
                         /\ Has(settings, "screenshot_enabled") =>
                                 screenshot_enabled = settings.screenshot_enabled
                         /\ Has(settings, "idle_threshold") =>
                                 idle_threshold = settings.idle_threshold
    /\ (last_call = "check_restricted_apps" /\ restricted_apps # <<>>) =>
           \A i \in DOMAIN restricted_app_timers :
               \E n \in DOMAIN restricted_apps :
                   Contains(Lower(restricted_apps[n]), restricted_app_timers[i].name)
    /\ (last_call = "on_message"
        /\ Get(message, "event", "None") = "take_screenshot_now") =>
           handler_calls[1] = Call("take_screenshot", screenshot_enabled)

\* a tick started a timer for chrome.exe under the list ["Chrome"], which is
\* in memory only: its write failed and left the file corrupt
C32_Witness ==
    /\ last_call = "check_restricted_apps"
    /\ restricted_apps = <<Chrome>>
    /\ config_file = CorruptFile
    /\ save_result = "write_error"
    /\ message = [event |-> "restricted_apps_update",
                  data |-> [restricted_apps |-> <<Chrome>>]]
    /\ Len(restricted_app_timers) = 1
    /\ connected

----------------------------------------------------------------------------
(* Properties of detection and the grace period (checked under SpecGrace) *)

\* the step is an enforcement tick, whether or not it raises
GraceTick == pc = "check_restricted_apps" /\ last_call' = "check_restricted_apps"

\* the processes of the snapshot whose name could be read
Named(apps) == SelectSeq(apps, LAMBDA app : ~Nameless(app))

\* how many restricted_app_detected events for key are in events
DetectedCount(events, key) ==
    Cardinality({i \in DOMAIN events :
                    /\ events[i].event = "restricted_app_detected"
                    /\ Key(events[i].pid, events[i].app_name) = key})

Pairs(apps) ==
    {Key(Named(apps)[j].pid, Lower(Named(apps)[j].name)) : j \in DOMAIN Named(apps)}

\* the tick called terminate_process for the pair key
Attempted(calls, key) ==
    \E n \in DOMAIN calls : Key(calls[n].pid, calls[n].name) = key

C36_MatchedThroughGrace ==
    [][GraceTick =>
           \A i \in DOMAIN restricted_app_timers :
               LET key == restricted_app_timers[i].key
               IN  (\/ IsTracked(restricted_app_timers', key)
                    \/ Attempted(terminate_calls', key))
                       => key \in Matched(Named(running_apps'), restricted_apps)]_vars

\* C37: terminate_process is never called for a timer whose warned flag is
\* false when the call is made: in a tick that finds a matched timer with
\* elapsed >= 120 s, the flag is set first, and the warning is surfaced in
\* that tick when no earlier tick had surfaced it.
C37_WarnedBeforeTermination ==
    [][GraceTick =>
           /\ \A n \in DOMAIN terminate_calls' : terminate_calls'[n].warned
           /\ \A i \in DOMAIN restricted_app_timers :
                  LET t == restricted_app_timers[i]
                  IN  Attempted(terminate_calls', t.key) =>
                          /\ current_time' - t.start_time >= RESTRICTED_APP_TIMEOUT
                          /\ t.warned <=> \A n \in DOMAIN warnings' : warnings'[n] # t.key
                          /\ IsTracked(restricted_app_timers', t.key) =>
                                 TimerOf(restricted_app_timers', t.key).warned]_vars

\* a timer that no tick had warned about reached 120 s: the tick surfaced the
\* warning and then attempted the termination, which failed
C37_Witness ==
    /\ AfterTick
    /\ current_time = RESTRICTED_APP_TIMEOUT
    /\ warnings = <<Key(100, chrome_exe)>>
    /\ terminate_calls = <<[pid |-> 100, name |-> chrome_exe, ok |-> FALSE,
                            warned |-> TRUE]>>
    /\ IsTracked(restricted_app_timers, Key(100, chrome_exe))
    /\ TimerOf(restricted_app_timers, Key(100, chrome_exe)).start_time = 0
    /\ TimerOf(restricted_app_timers, Key(100, chrome_exe)).warned

\* event n of the history is a restricted_app_detected event for the pair of
\* event m
DetectedFor(events, n, m) ==
    /\ events[n].event = "restricted_app_detected"
    /\ events[n].pid = events[m].pid
    /\ events[n].app_name = events[m].app_name

\* C38: in the order the events were queued, every restricted_app_terminated
\* event comes after a restricted_app_detected event for the same (pid, name)
\* pair; and no tick both creates a timer and attempts its termination.
C38_DetectedBeforeTerminated ==
    /\ [](\A m \in DOMAIN queued :
              queued[m].event = "restricted_app_terminated" =>
                  \E n \in 1..(m - 1) : DetectedFor(queued, n, m))
    /\ [][GraceTick =>
              \A n \in DOMAIN terminate_calls' :
                  LET key == Key(terminate_calls'[n].pid, terminate_calls'[n].name)
                  IN  /\ IsTracked(restricted_app_timers, key)
                      /\ DetectedCount(Appended, key) = 0]_vars

\* chrome.exe was detected, terminated 120 s later, and detected again by the
\* tick after that
C38_Witness ==
    /\ AfterTick
    /\ queued = <<DetectedEvent(100, chrome_exe),
                  TerminatedEvent([pid |-> 100, name |-> chrome_exe]),
                  DetectedEvent(100, chrome_exe)>>
    /\ restricted_app_timers =
           <<NewTimer(Key(100, chrome_exe), 100, chrome_exe, RESTRICTED_APP_TIMEOUT)>>

----------------------------------------------------------------------------
(* Properties of the wakes of run()'s loop (checked under SpecRun) *)

\* the calls of the wake other than the enforcement tick, in the order made
Reports == SelectSeq(fired, LAMBDA c : c.call # "check_restricted_apps")

\* the one order of the report calls
ReportOrder ==
    <<"track_activity", "send_activity_data", "take_screenshot", "send_screenshot",
      "send_heartbeat", "send_event_data">>

\* C35: while the agent is running every wake of the loop calls the
\* enforcement tick, once and before anything else, whichever of the reports
\* are due in the wake; and the report calls of every wake follow one order:
\* each is at a later place of ReportOrder than the one made before it.
C35_ReconcileEveryWake ==
    /\ [][(pc = "while" /\ running /\ pc' # pc) => pc' = "check_restricted_apps"]_vars
    /\ [][(pc = "check_restricted_apps" /\ pc' # pc) =>
              fired' = <<Call("check_restricted_apps", ~raised')>>]_vars
    /\ [](WakeOver =>
              Cardinality({i \in DOMAIN fired :
                              fired[i].call = "check_restricted_apps"}) = 1)
    /\ [](\A i \in DOMAIN Reports :
              \E k \in DOMAIN ReportOrder :
                  /\ Reports[i].call = ReportOrder[k]
                  /\ i > 1 => \E h \in 1..(k - 1) : Reports[i - 1].call = ReportOrder[h])

\* a wake in which the heartbeat was due and the screenshot was not: the
\* tick, the activity report, the heartbeat and the flush ran, in that order
C35_Witness ==
    /\ pc = "sleep"
    /\ loop_time = HEARTBEAT_INTERVAL
    /\ last_screenshot_time = 0
    /\ Len(fired) = 5
    /\ fired[1].call = "check_restricted_apps"
    /\ fired[4].call = "send_heartbeat"
    /\ fired[5].call = "send_event_data"

----------------------------------------------------------------------------
(* Properties of the feature toggles (checked under SpecToggle) *)

\* the calls the step added to the wake's record
NewFired == SubSeq(fired', Len(fired) + 1, Len(fired'))

\* call c captured a screenshot or sent one
Screenshot(c) == c = Call("take_screenshot", TRUE) \/ c.call = "send_screenshot"

\* call c produced an activity record or sent one
Activity(c) == c = Call("track_activity", TRUE) \/ c.call = "send_activity_data"

\* C39: a step taken while screenshot_enabled is false captures and sends no
\* screenshot, in run()'s loop and in the handler of take_screenshot_now
\* alike, and a step taken while activity_tracking_enabled is false sends no
\* activity report; whatever the two toggles say, the loop calls the
\* enforcement tick, the heartbeat when it is due, and the event flush.
C39_DisabledFeatureSilent ==
    [][/\ ~screenshot_enabled =>
              /\ \A i \in DOMAIN NewFired : ~Screenshot(NewFired[i])
              /\ handler_calls' # handler_calls =>
                     \A i \in DOMAIN handler_calls' : ~Screenshot(handler_calls'[i])
              /\ (last_call' = "on_message" /\ message' \in ScreenshotRequests
                  /\ pc' = pc /\ ws_pc' = ws_pc) =>
                     handler_calls' = <<Call("take_screenshot", FALSE)>>
       /\ ~activity_tracking_enabled =>
              \A i \in DOMAIN NewFired : ~Activity(NewFired[i])
       /\ (pc = "check_restricted_apps" /\ pc' # pc) =>
              NewFired = <<Call("check_restricted_apps", ~raised')>>
       /\ (pc = "send_heartbeat" /\ pc' # pc
           /\ loop_time - last_heartbeat_time >= HEARTBEAT_INTERVAL) =>
              Len(NewFired) = 1 /\ NewFired[1].call = "send_heartbeat"
       /\ (pc = "send_event_data" /\ pc' # pc) =>
              Len(NewFired) = 1 /\ NewFired[1].call = "send_event_data"]_vars

\* with both features switched off a wake ran the tick, the heartbeat and the
\* flush and nothing else, and a take_screenshot_now request captured nothing
C39_Witness ==
    /\ ~screenshot_enabled
    /\ ~activity_tracking_enabled
    /\ pc = "sleep"
    /\ loop_time = SCREENSHOT_INTERVAL
    /\ last_screenshot_time = SCREENSHOT_INTERVAL
    /\ fired = <<Call("check_restricted_apps", TRUE), Call("track_activity", FALSE),
                 Call("take_screenshot", FALSE), Call("send_heartbeat", TRUE),
                 Call("send_event_data", TRUE)>>
    /\ message \in ScreenshotRequests
    /\ handler_calls = <<Call("take_screenshot", FALSE)>>

====
